---- MODULE Spec2Model ----
(***************************************************************************)
(* Batch test engine of xraymgr (app/xraymgr/test_batch_10.py) over the    *)
(* SQLite store of app/xraymgr/schema.py.                                  *)
(*                                                                         *)
(* The store is the pair of tables links / inbound.  Every store           *)
(* transaction of the runner is opened with BEGIN IMMEDIATE, which takes   *)
(* SQLite's write lock, so a transaction is one atomic step here: either   *)
(* all of its statements are applied (commit) or none (rollback).          *)
(* One runner process executes main() once: one batch, one batch id.       *)
(***************************************************************************)
EXTENDS Integers, Sequences, FiniteSets, TLC

\* ------------------------------------------------------------------ bounds
NumLinks == 3        \* testable rows of links (after the five untestable rows)
NumProcs == 2        \* runner processes (each runs one batch)
Count == 2           \* largest --count: slots / links per batch (scaled down)
LockTimeout == 1     \* TEST_LOCK_TIMEOUT_SECONDS (scaled down)
MaxTime == 3         \* the wall clock runs 1..MaxTime
BatchSize == 2       \* batch_size of the pipeline jobs (scaled down)
MaxConverters == 2   \* NodeLinkConverter objects ever created
MaxNodes == 3        \* Node processes ever started
MaxCalls == 2        \* bridge calls one job thread makes
MaxStops == 1        \* request_stop() calls
PoolSize == 1        \* workers of the probe pool where it is scaled down
MaxThreads == 2      \* threads of one panel job that exist at a time

\* ------------------------------------------------------- program constants
NULL == 0                        \* SQL NULL of an integer / datetime column
MAX_REPLACEMENTS_PER_SLOT == 5
PARALLEL_JOBS == 10

\* Rows 1..5 of links each miss one condition of the eligibility SELECT; the
\* rows after them are testable.
Links == 1..(5 + NumLinks)
Procs == 1..NumProcs
Ports(n) == 1..n                 \* ports of --count n: test_port_start + i - 1, by i
NoText == "NULL"                 \* SQL NULL of a text column

Min(a, b) == IF a <= b THEN a ELSE b

\* ------------------------------------------------------------------- state
VARIABLES
  links,         \* table links: id -> row
  inbound,       \* table inbound (role='test'): port -> row; DOMAIN = rows present
  now,           \* utc_now(), in seconds
  pc,            \* per process: position in main()
  exc,           \* per process: the exception that ended or diverted main()
  count,         \* per process: --count
  slots,         \* per process: Slot.link_id by slot index (the mutable binding)
  cur,           \* per process: slot index of the preflight loop
  replacements,  \* per process: replacements counter of the current slot
  next_idx,      \* per process: next job to submit in the test phase
  in_flight,     \* per process: slot indexes of the submitted, unfinished jobs
  pre,           \* snapshot of the store taken by the latest allocation
  jpc,           \* per pipeline job: position in its run ("idle" when not running)
  last_id,       \* per pipeline job: the id cursor of its batch loop
  imported,      \* an importer run has completed (not stopped) at least once
  xray,          \* the data plane: tags of its outbounds, inbounds and rules
  existing_in,   \* per process: set(xr.list_inbound_tags()), then what it added
  existing_out,  \* per process: set(xr.list_outbound_tags()), then what it added
  created_in,    \* per process: inbound tags the batch added, in order
  created_out,   \* per process: outbound tags the batch added, in order
  rule_tags,     \* per process: rule tags of build_test_routing_rules
  applied,       \* per process: rule tags apply_rules has put into the data plane
  removed,       \* per process: the removal commands of the finally block, in order
  _converter,    \* jsbridge._converter: the shared NodeLinkConverter, or NULL
  _proc,         \* per converter: self._proc, a Node process or NULL
  _io_lock,      \* per converter: the thread inside "with self._io_lock", or ""
  _disposed,     \* per converter: self._disposed
  node,          \* per Node process: alive or not, its stdin and stdout pipes
  caller,        \* per job thread: its position in a bridge call and what it got
  closer,        \* the thread of request_stop(): position in close_global_converter
  stop_event,    \* per job: JsonUpdaterStopped / JsonRepairStopped was requested
  sources_file,  \* the lines of proxy_sources.txt
  task,          \* per source: position of _process_single_source and its locals
  _sources_lock, \* the source inside "with self._sources_lock", or ""
  _stop_event,   \* the collector's stop event
  _lock,         \* XrayRuntimeApplier._lock: the thread that holds it, or ""
  apply_pc,      \* the thread inside apply_snapshot: its position
  snapshot,      \* the snapshot that call was given
  step_idx,      \* its place in the list the call is working through
  commands,      \* the xray api commands the call has run, in order
  apply_result,  \* what the call returned
  direct_pc,     \* a second thread that uses remove_outbound on its own
  running,       \* web.py, per job: state["running"]
  job_thread,    \* per job and thread started for it: where the thread is
  response       \* per job: the answer to the last run request

\* state of the batch test engine besides the links table
\* what a batch knows of the data plane, and the data plane itself
xvars == <<xray, existing_in, existing_out, created_in, created_out, rule_tags,
           applied, removed>>

\* the link-parser bridge and the threads that call it
bvars == <<_converter, _proc, _io_lock, _disposed, node, caller, closer,
           stop_event>>

\* the collector: its source-list file and its workers
cvars == <<sources_file, task, _sources_lock, _stop_event>>

\* the runtime applier and the two threads that use it
avars == <<_lock, apply_pc, snapshot, step_idx, commands, apply_result,
           direct_pc>>

\* the control panel: its job states and the threads it started
wvars == <<running, job_thread, response>>

evars == <<inbound, now, pc, exc, count, slots, cur, replacements, next_idx,
           in_flight, pre, xvars, bvars, cvars, avars, wvars>>

\* state of the pipeline jobs besides the links table
pvars == <<jpc, last_id, imported, bvars, cvars, avars, wvars>>

vars == <<links, inbound, now, pc, exc, count, slots, cur, replacements, next_idx,
          in_flight, pre, jpc, last_id, imported, xvars, bvars, cvars, avars,
          wvars>>

\* ------------------------------------------------ link-parser bridge: state
BridgeThreads == { "json", "json_repair" }   \* the builder's and the repairer's thread
Converters == 1..MaxConverters               \* NodeLinkConverter objects, by creation
NodeProcs == 1..MaxNodes                     \* Node processes, in the order of Popen

\* what stdout.readline() hands back when there is nothing: no line
NoLine == [ req |-> <<"", 0>>, kind |-> "none" ]

\* no exception
NoMsg == << >>

\* a thread that is not inside _convert_url_to_outbound
CallerAtRest ==
  [ pc |-> "idle", conv |-> NULL, proc |-> NULL, calls |-> 0, try |-> 0,
    result |-> NoLine, cause |-> "", first_cause |-> "", msg |-> NoMsg,
    verdict |-> "" ]

\* module import of jsbridge: no converter, no Node process, no call
BridgeAtRest ==
  /\ _converter = NULL
  /\ _proc = [ c \in Converters |-> NULL ]
  /\ _io_lock = [ c \in Converters |-> "" ]
  /\ _disposed = [ c \in Converters |-> FALSE ]
  /\ node = [ n \in NodeProcs |-> [ state |-> "none", stdin |-> << >>,
                                     stdout |-> << >> ] ]
  /\ caller = [ t \in BridgeThreads |-> CallerAtRest ]
  /\ closer = [ pc |-> "idle", proc |-> NULL, stops |-> 0 ]
  /\ stop_event = [ t \in BridgeThreads |-> FALSE ]

\* ------------------------------------------------ runtime applier: state
\* no call has returned anything yet
NoResult == [ ok |-> FALSE, error_code |-> "none" ]

\* no snapshot: nothing to add, to route or to remove
EmptySnapshot ==
  [ outbounds |-> << >>, inbounds |-> << >>, routing |-> "None",
    remove_outbound_tags |-> << >>, remove_inbound_tags |-> << >>,
    remove_rule_tags |-> << >> ]

\* XrayRuntimeApplier.__init__: the lock is free and nothing is being applied
ApplierAtRest ==
  /\ _lock = ""
  /\ apply_pc = "idle"
  /\ snapshot = EmptySnapshot
  /\ step_idx = 0
  /\ commands = << >>
  /\ apply_result = NoResult
  /\ direct_pc = "idle"

\* ------------------------------------------------ control panel: state
\* Jobs of the panel: two of the pipeline jobs, which are started through
\* _start_thread_if_idle, and the test job, which test_run starts itself.
PanelJobs == { "collector", "importer", "test" }
PipelineJobs == PanelJobs \ { "test" }

\* the threads that may exist for one job at a time
JobThreads == 1..MaxThreads

\* web.py as imported: no job runs, no thread exists, nothing was asked
PanelAtRest ==
  /\ running = [ j \in PanelJobs |-> FALSE ]
  /\ job_thread = [ j \in PanelJobs |-> [ k \in JobThreads |-> "none" ] ]
  /\ response = [ j \in PanelJobs |-> "none" ]

\* ------------------------------------------------ collector: state
\* proxy_sources.txt as the run finds it: a comment that names a source, three
\* sources (one written with blanks around it) and a blank line.
SourceLines == << "# A", "A", "", " B ", "C" >>

\* str.strip() of a line of the file
strip(line) == IF line = " B " THEN "B" ELSE line

\* "not stripped or stripped.lstrip().startswith('#')"
IsBlankOrComment(line) == strip(line) = "" \/ strip(line) = "# A"

\* _read_sources(): the stripped lines that are neither blank nor comments
Sources ==
  { strip(SourceLines[i]) : i \in { j \in DOMAIN SourceLines :
                                       ~IsBlankOrComment(SourceLines[j]) } }

\* the collector before collect_from_sources_file() submits its work
CollectorAtRest ==
  /\ sources_file = SourceLines
  /\ task = [ u \in Sources |-> [ pc |-> "queued", attempt |-> 0,
                                   content |-> "", lines |-> << >> ] ]
  /\ _sources_lock = ""
  /\ _stop_event = FALSE

\* A links row as INSERTed by the pipeline and made testable: schema defaults
\* for every column the test engine writes.
FreshLink(primary, has_config, tag, invalid, unsupported) ==
  [ is_config_primary |-> primary,
    has_config |-> has_config,           \* config_json IS NOT NULL AND TRIM(..) <> ''
    outbound_tag |-> tag,
    is_invalid |-> invalid,
    is_protocol_unsupported |-> unsupported,
    test_status |-> "idle",
    test_started_at |-> NULL,
    test_lock_until |-> NULL,
    test_lock_owner |-> NULL,
    test_batch_id |-> NULL,
    inbound_tag |-> NULL,
    is_in_use |-> 0,
    bound_port |-> NULL,
    last_test_at |-> NULL,
    last_test_ok |-> 0,
    last_test_error |-> NoText,
    is_alive |-> 0,
    ip |-> NoText, country |-> NoText, city |-> NoText, datacenter |-> NoText,
    url |-> NULL,                        \* number of the URI text (see UrlTable)
    config_tag |-> NULL,                 \* "tag" member of the config_json object
    config_hash |-> NULL,
    config_group_id |-> "",              \* TEXT DEFAULT ''
    repaired_url |-> NULL,
    cipher_known |-> TRUE ]              \* config_json names a cipher xray knows

FreshInbound ==
  [ link_id |-> NULL, outbound_tag |-> NULL, is_active |-> 0,
    status |-> "new", last_test_at |-> NULL ]

NoSnapshot == [ by |-> 0, links |-> <<>>, inbound |-> <<>> ]

\* a data plane that holds nothing of any batch
NoXray == [ out |-> {}, inb |-> {}, rules |-> {} ]

\* ------------------------------------------------------- sequence helpers
RECURSIVE SortedSeq(_)
SortedSeq(S) ==                       \* ORDER BY id ASC
  IF S = {} THEN <<>>
  ELSE LET m == CHOOSE x \in S : \A y \in S : x <= y
       IN <<m>> \o SortedSeq(S \ {m})

Limit(seq, n) == SubSeq(seq, 1, Min(n, Len(seq)))      \* LIMIT ?

SeqToSet(seq) == { seq[i] : i \in 1..Len(seq) }

\* ------------------------------------------------ store: pool, lock, bind
ensure_test_inbounds(inb, ports) ==
  [ q \in (DOMAIN inb) \cup ports |->
      IF q \in DOMAIN inb THEN inb[q] ELSE FreshInbound ]

clear_test_inbounds(inb, ports) ==
  [ q \in DOMAIN inb |->
      IF q \in ports
      THEN [ inb[q] EXCEPT !.link_id = NULL, !.outbound_tag = NULL,
                           !.is_active = 0, !.status = "new" ]
      ELSE inb[q] ]

fetch_test_inbounds(inb, ports) == SortedSeq(ports \cap DOMAIN inb)

\* test_lock_until IS NULL OR test_lock_until < now
LeaseExpired(l, t) == l.test_lock_until = NULL \/ l.test_lock_until < t

\* Mutant of Reservable: a running row counts as reservable whatever its lease.
Reservable_IgnoresLease(l, t) ==
  l.test_status = "idle" \/ l.test_status = "running"

\* test_status = 'idle' OR (test_status = 'running' AND lease expired)
Reservable(l, t) ==
  \/ l.test_status = "idle"
  \/ l.test_status = "running" /\ LeaseExpired(l, t)

\* WHERE clause of the eligibility SELECT
Eligible(l, t) ==
  /\ l.is_config_primary = 1
  /\ l.last_test_at = NULL
  /\ l.outbound_tag # NULL
  /\ l.has_config
  /\ l.is_invalid = 0
  /\ l.is_protocol_unsupported = 0
  /\ Reservable(l, t)

\* WHERE clause of the reserving UPDATE (besides id IN (...))
ReserveWhere(l, t) ==
  /\ l.last_test_at = NULL
  /\ l.is_config_primary = 1
  /\ Reservable(l, t)

\* Mutant of select_links_for_test: no `last_test_at IS NULL` in the SELECT
\* and in the UPDATE, so tested rows are taken again.
select_links_for_test_Retests(L, limit, t, owner, batch_id) ==
  LET elig(l) == /\ l.is_config_primary = 1 /\ l.outbound_tag # NULL
                 /\ l.has_config /\ l.is_invalid = 0
                 /\ l.is_protocol_unsupported = 0 /\ Reservable(l, t)
      rows == Limit(SortedSeq({ r \in DOMAIN L : elig(L[r]) }), limit)
      L2 == [ r \in DOMAIN L |->
                IF r \in SeqToSet(rows)
                THEN [ L[r] EXCEPT !.test_status = "running",
                                   !.test_started_at = t,
                                   !.test_lock_until = t + LockTimeout,
                                   !.test_lock_owner = owner,
                                   !.test_batch_id = batch_id ]
                ELSE L[r] ]
  IN IF Len(rows) < limit
       THEN [ ok |-> FALSE, err |-> "NotEnough", rows |-> <<>>, links |-> L ]
     ELSE [ ok |-> TRUE, err |-> "", rows |-> rows, links |-> L2 ]

select_links_for_test(L, limit, t, owner, batch_id) ==
  LET rows == Limit(SortedSeq({ r \in DOMAIN L : Eligible(L[r], t) }), limit)
      ids == SeqToSet(rows)
      hit == { r \in ids : ReserveWhere(L[r], t) }
      L2 == [ r \in DOMAIN L |->
                IF r \in hit
                THEN [ L[r] EXCEPT !.test_status = "running",
                                   !.test_started_at = t,
                                   !.test_lock_until = t + LockTimeout,
                                   !.test_lock_owner = owner,
                                   !.test_batch_id = batch_id ]
                ELSE L[r] ]
  IN IF Len(rows) < limit
       THEN [ ok |-> FALSE, err |-> "NotEnough", rows |-> <<>>, links |-> L ]
     ELSE IF Cardinality(hit) # Len(rows)
       THEN [ ok |-> FALSE, err |-> "Race", rows |-> <<>>, links |-> L ]
     ELSE [ ok |-> TRUE, err |-> "", rows |-> rows, links |-> L2 ]

\* idx_links_inbound_tag_unique: no other row may carry the same inbound_tag
InboundTagTaken(L, link_id, tag) ==
  \E r \in (DOMAIN L) \ {link_id} : L[r].inbound_tag = tag

\* The two UPDATEs of bind_inbound_to_link; the slot tag is tag_prefix+port,
\* identified with the port.  ok = FALSE is sqlite3.IntegrityError.
bind_inbound_to_link(db, port, link_id) ==
  [ ok |-> ~InboundTagTaken(db.links, link_id, port),
    links |-> [ db.links EXCEPT ![link_id] =
                  [ @ EXCEPT !.inbound_tag = port, !.is_in_use = 1,
                             !.bound_port = port ] ],
    inbound |-> [ db.inbound EXCEPT ![port] =
                    [ @ EXCEPT !.link_id = link_id,
                               !.outbound_tag = db.links[link_id].outbound_tag,
                               !.status = "bound" ] ] ]

RECURSIVE bind_inbounds_to_links(_, _, _)
bind_inbounds_to_links(db, inbounds, rows) ==     \* zip(inbounds, links)
  IF inbounds = <<>> \/ rows = <<>>
  THEN [ ok |-> TRUE, links |-> db.links, inbound |-> db.inbound ]
  ELSE LET b == bind_inbound_to_link(db, Head(inbounds), Head(rows))
       IN IF b.ok THEN bind_inbounds_to_links(b, Tail(inbounds), Tail(rows))
          ELSE b

\* Mutant of release_batch_locks: test_batch_id is not cleared.
release_batch_locks_KeepsBatchId(db, batch_id, ports) ==
  [ links |-> [ r \in DOMAIN db.links |->
                  IF db.links[r].test_batch_id = batch_id
                  THEN [ db.links[r] EXCEPT !.test_status = "idle",
                                            !.test_started_at = NULL,
                                            !.test_lock_until = NULL,
                                            !.test_lock_owner = NULL ]
                  ELSE db.links[r] ],
    inbound |-> clear_test_inbounds(db.inbound, ports) ]

release_batch_locks(db, batch_id, ports) ==
  [ links |-> [ r \in DOMAIN db.links |->
                  IF db.links[r].test_batch_id = batch_id
                  THEN [ db.links[r] EXCEPT !.test_status = "idle",
                                            !.test_started_at = NULL,
                                            !.test_lock_until = NULL,
                                            !.test_lock_owner = NULL,
                                            !.test_batch_id = NULL ]
                  ELSE db.links[r] ],
    inbound |-> clear_test_inbounds(db.inbound, ports) ]

\* ------------------------------------------------ error code policy
\* A code is a sequence of whitespace-separated words; _one_word keeps the first.
_one_word(code) == IF code = <<>> THEN "fail" ELSE Head(code)

\* str.split() of a text of at most one word
Words(s) == IF s = "" THEN <<>> ELSE <<s>>

\* res.error_type is one token here (or "" when absent)
error_code_from_check_result(res) ==
  LET et == res.error_type
      code == IF et = "check_host_subprocess_timeout" THEN <<"timeout">>
              ELSE IF et = "check_host_exit_nonzero" THEN <<"check">>
              ELSE IF et = "json_parse_failed" THEN <<"badjson">>
              ELSE IF et = "empty_output" THEN <<"empty">>
              ELSE IF et # "" THEN <<et>>
              ELSE <<"fail">>
  IN _one_word(code)

\* An error text is the set of the marker substrings it contains.
error_code_from_text(t) ==
  IF t \cap {"xray_add_outbound_failed", "failed to build", "xray"} # {}
    THEN "xray"
  ELSE IF t \cap {"outbound_config_parse_failed", "config_parse", "json"} # {}
    THEN "parse"
  ELSE IF t \cap {"slot_replacement_exhausted", "exhaust"} # {}
    THEN "exhaust"
  ELSE "fail"

\* ------------------------------------------------ probe results
is_test_ok(res) == res.status = "ok" /\ res.ip # NoText

extract_success_metadata(res) ==
  [ ip |-> res.ip, country |-> res.country, city |-> res.city,
    datacenter |-> res.isp ]

NoMeta == [ ip |-> NoText, country |-> NoText, city |-> NoText,
            datacenter |-> NoText ]

COALESCE(a, b) == IF a # NoText THEN a ELSE b

\* Mutant of finalize_db_after_test: the geolocation columns are written from
\* meta for failed results too.
finalize_db_after_test_WritesGeoOnFail(db, inbound_id, link_id, ok, err_code, t, meta) ==
  LET ok_i == IF ok THEN 1 ELSE 0
      l == db.links[link_id]
  IN [ links |-> [ db.links EXCEPT ![link_id] =
                     [ l EXCEPT !.last_test_at = t,
                                !.last_test_ok = ok_i,
                                !.last_test_error = IF ok THEN NoText
                                                    ELSE _one_word(Words(err_code)),
                                !.is_alive = ok_i,
                                !.ip = meta.ip,
                                !.country = meta.country,
                                !.city = meta.city,
                                !.datacenter = meta.datacenter,
                                !.test_status = "idle",
                                !.test_started_at = NULL,
                                !.test_lock_until = NULL,
                                !.test_lock_owner = NULL,
                                !.test_batch_id = NULL,
                                !.inbound_tag = NULL,
                                !.is_in_use = 0,
                                !.bound_port = NULL ] ],
       inbound |-> [ db.inbound EXCEPT ![inbound_id] =
                       [ @ EXCEPT !.last_test_at = t, !.link_id = NULL,
                                  !.outbound_tag = NULL, !.is_active = 0,
                                  !.status = "idle" ] ] ]

\* Mutant of finalize_db_after_test: the result is recorded but the record
\* keeps its inbound binding and the slot keeps its link.
finalize_db_after_test_KeepsBinding(db, inbound_id, link_id, ok, err_code, t, meta) ==
  LET ok_i == IF ok THEN 1 ELSE 0
      l == db.links[link_id]
  IN [ links |-> [ db.links EXCEPT ![link_id] =
                     [ l EXCEPT !.last_test_at = t,
                                !.last_test_ok = ok_i,
                                !.last_test_error = IF ok THEN NoText
                                                    ELSE _one_word(Words(err_code)),
                                !.is_alive = ok_i,
                                !.test_status = "idle",
                                !.test_started_at = NULL,
                                !.test_lock_until = NULL,
                                !.test_lock_owner = NULL,
                                !.test_batch_id = NULL ] ],
       inbound |-> [ db.inbound EXCEPT ![inbound_id] =
                       [ @ EXCEPT !.last_test_at = t, !.status = "idle" ] ] ]

\* ------------------------------------------------ store: finalize
finalize_db_after_test(db, inbound_id, link_id, ok, err_code, t, meta) ==
  LET ok_i == IF ok THEN 1 ELSE 0
      l == db.links[link_id]
      l1 == [ l EXCEPT !.last_test_at = t,
                       !.last_test_ok = ok_i,
                       !.last_test_error = IF ok THEN NoText
                                           ELSE _one_word(Words(err_code)),
                       !.is_alive = ok_i,
                       !.test_status = "idle",
                       !.test_started_at = NULL,
                       !.test_lock_until = NULL,
                       !.test_lock_owner = NULL,
                       !.test_batch_id = NULL,
                       !.inbound_tag = NULL,
                       !.is_in_use = 0,
                       !.bound_port = NULL ]
      l2 == IF ok
            THEN [ l1 EXCEPT !.ip = COALESCE(meta.ip, l.ip),
                             !.country = COALESCE(meta.country, l.country),
                             !.city = COALESCE(meta.city, l.city),
                             !.datacenter = COALESCE(meta.datacenter, l.datacenter) ]
            ELSE l1
  IN [ links |-> [ db.links EXCEPT ![link_id] = l2 ],
       inbound |-> [ db.inbound EXCEPT ![inbound_id] =
                       [ @ EXCEPT !.last_test_at = t, !.link_id = NULL,
                                  !.outbound_tag = NULL, !.is_active = 0,
                                  !.status = "idle" ] ] ]

mark_link_failed_and_free_inbound(db, inbound_id, link_id, error_text, t) ==
  finalize_db_after_test(db, inbound_id, link_id, FALSE,
                         error_code_from_text(error_text), t, NoMeta)

\* select (limit 1) + bind in one transaction; ok = FALSE is the rollback
reserve_and_bind_replacement(db, inbound_id, port, owner, batch_id, t) ==
  LET sel == select_links_for_test(db.links, 1, t, owner, batch_id)
      b == bind_inbound_to_link([ links |-> sel.links, inbound |-> db.inbound ],
                                port, sel.rows[1])
  IN IF ~sel.ok
       THEN [ ok |-> FALSE, err |-> sel.err, row |-> NULL,
              links |-> db.links, inbound |-> db.inbound ]
     ELSE IF ~b.ok
       THEN [ ok |-> FALSE, err |-> "IntegrityError", row |-> NULL,
              links |-> db.links, inbound |-> db.inbound ]
     ELSE [ ok |-> TRUE, err |-> "", row |-> sel.rows[1],
            links |-> b.links, inbound |-> b.inbound ]

\* ------------------------------------------------ inputs
\* What check-host.py / run_check_host can hand back for one probe.
ProbeResults ==
  { [ status |-> "ok", ip |-> "203.0.113.7", country |-> "NL",
      city |-> "Amsterdam", isp |-> "AS64500", error_type |-> "" ],
    [ status |-> "ok", ip |-> "198.51.100.9", country |-> NoText,
      city |-> NoText, isp |-> NoText, error_type |-> "" ],
    [ status |-> "error", ip |-> NoText, country |-> NoText,
      city |-> NoText, isp |-> NoText,
      error_type |-> "check_host_subprocess_timeout" ] }

\* error_type of a failed probe: what fetch() of check-host.py classifies, what
\* run_check_host makes of a subprocess that fails, and none at all
CheckHostErrorTypes ==
  { "connection_timeout", "connection_failed", "proxy_error", "tls_error",
    "http_error", "captcha_or_antibot_challenge", "json_parse_failed",
    "check_host_subprocess_timeout", "check_host_exit_nonzero", "empty_output",
    "" }

CheckHostFailures ==
  { [ status |-> "error", ip |-> NoText, country |-> NoText, city |-> NoText,
      isp |-> NoText, error_type |-> et ] : et \in CheckHostErrorTypes }

\* Error texts of the two preflight failures (marker substrings).
ParseFailText == { "outbound_config_parse_failed", "config_parse" }
AddOutboundFailText == { "xray_add_outbound_failed", "xray" }

\* stderr of `xray api ado` for the outbound of row l, when it fails
add_outbound_stderr(l) ==
  IF l.cipher_known THEN {} ELSE { "unknown cipher method" }

\* ------------------------------------------------ process bookkeeping
Live(p) == pc[p] \in { "connect", "preflight", "replace", "add_inbounds",
                       "rules", "test", "finish", "except" }

Store == [ links |-> links, inbound |-> inbound ]

\* The process is gone: its memory is gone with it.
Exit(p, how, why) ==
  /\ pc' = [ pc EXCEPT ![p] = how ]
  /\ exc' = [ exc EXCEPT ![p] = why ]
  /\ count' = [ count EXCEPT ![p] = 0 ]
  /\ slots' = [ slots EXCEPT ![p] = <<>> ]
  /\ cur' = [ cur EXCEPT ![p] = 0 ]
  /\ replacements' = [ replacements EXCEPT ![p] = 0 ]
  /\ next_idx' = [ next_idx EXCEPT ![p] = 0 ]
  /\ in_flight' = [ in_flight EXCEPT ![p] = {} ]

\* Leave the try block through `except Exception`.
Raise(p, why) ==
  /\ pc' = [ pc EXCEPT ![p] = "except" ]
  /\ exc' = [ exc EXCEPT ![p] = why ]
  /\ count' = count

\* The pipeline jobs of the control panel (the tag updater runs inside "json").
Jobs == { "importer", "json", "hash", "group", "json_repair" }

\* ------------------------------------------------ initial state
Init ==
  /\ links = [ r \in Links |->
                FreshLink(IF r = 1 THEN 0 ELSE 1,       \* not primary
                          r # 2,                        \* config_json empty
                          IF r = 3 THEN NULL ELSE r,    \* outbound_tag empty
                          IF r = 4 THEN 1 ELSE 0,       \* is_invalid
                          IF r = 5 THEN 1 ELSE 0) ]     \* is_protocol_unsupported
  /\ inbound = [ q \in {} |-> FreshInbound ]
  /\ now = 1
  /\ pc = [ p \in Procs |-> "start" ]
  /\ exc = [ p \in Procs |-> "" ]
  /\ count = [ p \in Procs |-> 0 ]
  /\ slots = [ p \in Procs |-> <<>> ]
  /\ cur = [ p \in Procs |-> 0 ]
  /\ replacements = [ p \in Procs |-> 0 ]
  /\ next_idx = [ p \in Procs |-> 0 ]
  /\ in_flight = [ p \in Procs |-> {} ]
  /\ pre = NoSnapshot
  /\ jpc = [ j \in Jobs |-> "idle" ]
  /\ last_id = [ j \in Jobs |-> 0 ]
  /\ imported = FALSE
  /\ xray = NoXray
  /\ existing_in = [ p \in Procs |-> {} ]
  /\ existing_out = [ p \in Procs |-> {} ]
  /\ created_in = [ p \in Procs |-> <<>> ]
  /\ created_out = [ p \in Procs |-> <<>> ]
  /\ rule_tags = [ p \in Procs |-> <<>> ]
  /\ applied = [ p \in Procs |-> {} ]
  /\ removed = [ p \in Procs |-> <<>> ]
  /\ BridgeAtRest
  /\ CollectorAtRest
  /\ ApplierAtRest
  /\ PanelAtRest

\* ------------------------------------------------ main(): one batch
\* Initial allocation: ensure/clear/fetch the slots, reserve, bind; commit or
\* rollback-and-raise (outside the try block: nothing is released).
Allocate(p) ==
  /\ UNCHANGED pvars
  /\ UNCHANGED xvars
  /\ pc[p] = "start"
  /\ \E n \in 1..Count :
     LET ports == Ports(n)
         inb1 == clear_test_inbounds(ensure_test_inbounds(inbound, ports), ports)
         ibs == fetch_test_inbounds(inb1, ports)
         sel == select_links_for_test(links, n, now, p, p)
         b == bind_inbounds_to_links([ links |-> sel.links, inbound |-> inb1 ],
                                     ibs, sel.rows)
     IN IF sel.ok /\ b.ok
        THEN /\ links' = b.links
             /\ inbound' = b.inbound
             /\ pre' = [ by |-> p, links |-> links, inbound |-> inbound ]
             /\ pc' = [ pc EXCEPT ![p] = "connect" ]
             /\ count' = [ count EXCEPT ![p] = n ]
             /\ slots' = [ slots EXCEPT ![p] = Limit(sel.rows, Len(ibs)) ]
             /\ UNCHANGED <<exc, cur, replacements, next_idx, in_flight>>
        ELSE /\ Exit(p, "failed", IF sel.ok THEN "IntegrityError" ELSE sel.err)
             /\ UNCHANGED <<links, inbound, pre>>
  /\ UNCHANGED now

\* XrayCli(...) and the two list calls, before the try block.
XrayConnectStep(p) ==
  /\ UNCHANGED pvars
  /\ pc[p] = "connect"
  /\ \E found \in BOOLEAN :
       IF found
       THEN /\ pc' = [ pc EXCEPT ![p] = "preflight" ]
            /\ cur' = [ cur EXCEPT ![p] = 1 ]
            /\ replacements' = [ replacements EXCEPT ![p] = 0 ]
            /\ UNCHANGED <<exc, count, slots, next_idx, in_flight>>
       ELSE Exit(p, "failed", "XrayInit")     \* RuntimeError: binary not found
  /\ UNCHANGED <<links, inbound, now, pre>>

\* One pass of the preflight while-loop for slot cur[p], up to and including
\* mark_link_failed_and_free_inbound when the outbound cannot be used.
PreflightStep(p) ==
  /\ UNCHANGED pvars
  /\ pc[p] = "preflight"
  /\ \E outcome \in { "ok", "parse", "ado" } :
       IF outcome = "ok"
       THEN /\ links[slots[p][cur[p]]].cipher_known
            /\ IF cur[p] < Len(slots[p])
               THEN /\ cur' = [ cur EXCEPT ![p] = @ + 1 ]
                    /\ pc' = pc
               ELSE /\ cur' = [ cur EXCEPT ![p] = 0 ]
                    /\ pc' = [ pc EXCEPT ![p] = "add_inbounds" ]
            /\ replacements' = [ replacements EXCEPT ![p] = 0 ]
            /\ UNCHANGED <<links, inbound, exc, count, pre>>
       ELSE LET text == IF outcome = "parse" THEN ParseFailText
                        ELSE AddOutboundFailText
                               \cup add_outbound_stderr(links[slots[p][cur[p]]])
                db == mark_link_failed_and_free_inbound(
                        Store, cur[p], slots[p][cur[p]], text, now)
            IN /\ links' = db.links
               /\ inbound' = db.inbound
               /\ pre' = NoSnapshot
               /\ replacements' = [ replacements EXCEPT ![p] = @ + 1 ]
               /\ IF replacements[p] + 1 > MAX_REPLACEMENTS_PER_SLOT
                  THEN Raise(p, "Exhausted")
                  ELSE /\ pc' = [ pc EXCEPT ![p] = "replace" ]
                       /\ UNCHANGED <<exc, count>>
               /\ cur' = cur
  /\ UNCHANGED <<now, slots, next_idx, in_flight>>

\* reserve_and_bind_replacement for slot cur[p]
Replace(p) ==
  /\ UNCHANGED pvars
  /\ UNCHANGED xvars
  /\ pc[p] = "replace"
  /\ LET r == reserve_and_bind_replacement(Store, cur[p], cur[p], p, p, now)
     IN IF r.ok
        THEN /\ links' = r.links
             /\ inbound' = r.inbound
             /\ slots' = [ slots EXCEPT ![p][cur[p]] = r.row ]
             /\ pc' = [ pc EXCEPT ![p] = "preflight" ]
             /\ pre' = NoSnapshot
             /\ UNCHANGED <<exc, count>>
        ELSE /\ Raise(p, r.err)
             /\ UNCHANGED <<links, inbound, slots, pre>>
  /\ UNCHANGED <<now, cur, replacements, next_idx, in_flight>>

\* the add_inbound loop
AddInboundsStep(p) ==
  /\ UNCHANGED pvars
  /\ pc[p] = "add_inbounds"
  /\ \E ok \in BOOLEAN :
       IF ok THEN pc' = [ pc EXCEPT ![p] = "rules" ] /\ UNCHANGED <<exc, count>>
       ELSE Raise(p, "AddInbound")
  /\ UNCHANGED <<links, inbound, now, slots, cur, replacements, next_idx,
                 in_flight, pre>>

\* Mutant of submit_next: the refill stops only when no job is left.
submit_next_All(n_jobs, next, flying, parallel) == n_jobs

\* "while len(in_flight) < PARALLEL_JOBS and submit_next(ex)": the value of
\* next_idx after the loop, for `flying` jobs in flight before it.  The first
\* submits, "for _ in range(min(PARALLEL_JOBS, len(jobs)))", are the same
\* loop from next_idx = 0 with nothing in flight.
submit_next(n_jobs, next, flying, parallel) ==
  IF flying < parallel THEN Min(n_jobs, next + (parallel - flying)) ELSE next

\* remove_rules + apply_rules, then the first submits to a pool of `parallel`
ApplyRulesPool(p, parallel) ==
  /\ UNCHANGED pvars
  /\ pc[p] = "rules"
  /\ \E ok \in BOOLEAN :
       IF ok
       THEN /\ pc' = [ pc EXCEPT ![p] = "test" ]
            /\ next_idx' = [ next_idx EXCEPT ![p] =
                               submit_next(Len(slots[p]), 0, 0, parallel) ]
            /\ in_flight' = [ in_flight EXCEPT ![p] =
                                1..submit_next(Len(slots[p]), 0, 0, parallel) ]
            /\ UNCHANGED <<exc, count>>
       ELSE /\ Raise(p, "Rules")
            /\ UNCHANGED <<next_idx, in_flight>>
  /\ UNCHANGED <<links, inbound, now, slots, cur, replacements, pre>>

ApplyRulesStep(p) == ApplyRulesPool(p, PARALLEL_JOBS)

\* One turn of the completion loop: job i finished with result res; the
\* result-write transaction commits (written) or rolls back; refill the pool.
CompletePool(p, results, parallel) ==
  /\ UNCHANGED pvars
  /\ UNCHANGED xvars
  /\ pc[p] = "test"
  /\ \E i \in in_flight[p], res \in results, written \in BOOLEAN :
       LET ok == is_test_ok(res)
           meta == IF ok THEN extract_success_metadata(res) ELSE NoMeta
           code == IF ok THEN "" ELSE error_code_from_check_result(res)
           db == finalize_db_after_test(Store, i, slots[p][i], ok, code, now, meta)
           upto == submit_next(Len(slots[p]), next_idx[p],
                               Cardinality(in_flight[p]) - 1, parallel)
           fly == (in_flight[p] \ {i}) \cup ((next_idx[p] + 1)..upto)
       IN /\ IF written
             THEN links' = db.links /\ inbound' = db.inbound /\ pre' = NoSnapshot
             ELSE UNCHANGED <<links, inbound, pre>>
          /\ in_flight' = [ in_flight EXCEPT ![p] = fly ]
          /\ next_idx' = [ next_idx EXCEPT ![p] = upto ]
          /\ pc' = [ pc EXCEPT ![p] = IF fly = {} THEN "finish" ELSE "test" ]
  /\ UNCHANGED <<now, exc, count, slots, cur, replacements>>

CompleteWith(p, results) == CompletePool(p, results, PARALLEL_JOBS)

\* a probe job completes with one of the results of the batch model
Complete(p) == CompleteWith(p, ProbeResults)

\* the probe phase of a batch whose pool is PoolSize workers
ApplyRulesScaled(p) == ApplyRulesPool(p, PoolSize) /\ UNCHANGED xvars

CompleteScaled(p) == CompletePool(p, ProbeResults, PoolSize)

\* a probe job completes with any result check-host.py or run_check_host makes
CompleteAny(p) == CompleteWith(p, ProbeResults \cup CheckHostFailures)

\* BEGIN IMMEDIATE of the result write raises (outside the inner try)
ResultBeginFail(p) ==
  /\ UNCHANGED pvars
  /\ UNCHANGED xvars
  /\ pc[p] = "test"
  /\ Raise(p, "DbLocked")
  /\ UNCHANGED <<links, inbound, now, slots, cur, replacements, next_idx,
                 in_flight, pre>>

\* report, then the finally block
FinishStep(p) ==
  /\ UNCHANGED pvars
  /\ pc[p] = "finish"
  /\ Exit(p, "done", "")
  /\ UNCHANGED <<links, inbound, now, pre>>

\* except branch: release_batch_locks, then the finally block, then re-raise
ReleaseStep(p) ==
  /\ UNCHANGED pvars
  /\ pc[p] = "except"
  /\ LET db == release_batch_locks(Store, p, Ports(count[p]))
     IN links' = db.links /\ inbound' = db.inbound
  /\ Exit(p, "failed", exc[p])
  /\ pre' = IF pre.by = p THEN pre ELSE NoSnapshot
  /\ now' = now

\* SIGKILL / power loss at any point after the allocation committed
Kill(p) ==
  /\ UNCHANGED pvars
  /\ UNCHANGED xvars
  /\ Live(p)
  /\ Exit(p, "killed", "")
  /\ UNCHANGED <<links, inbound, now, pre>>

Tick ==
  /\ UNCHANGED pvars
  /\ UNCHANGED xvars
  /\ now < MaxTime
  /\ now' = now + 1
  /\ UNCHANGED <<links, inbound, pc, exc, count, slots, cur, replacements,
                 next_idx, in_flight, pre>>

\* ------------------------------------------------ the data plane left out
\* In Spec and TagSpec an Xray command is represented by its outcome only;
\* what the data plane holds is not followed.
XrayConnect(p) == XrayConnectStep(p) /\ UNCHANGED xvars

Preflight(p) == PreflightStep(p) /\ UNCHANGED xvars

AddInbounds(p) == AddInboundsStep(p) /\ UNCHANGED xvars

ApplyRules(p) == ApplyRulesStep(p) /\ UNCHANGED xvars

Finish(p) == FinishStep(p) /\ UNCHANGED xvars

Release(p) == ReleaseStep(p) /\ UNCHANGED xvars

\* ------------------------------------------------ the data plane followed
\* Slot.inbound_tag by slot index; the rule tag of a slot is
\* "rt_test_" + inbound_tag and carries the same number here.
InboundTags(p) == [ i \in 1..Len(slots[p]) |-> i ]

Prefixes(seq) == { SubSeq(seq, 1, k) : k \in 0..Len(seq) }

\* XrayCli(...), then existing_in / existing_out from the two list calls
\* (a list call that fails yields []), and the three empty lists.
ConnectXray(p) ==
  /\ XrayConnectStep(p)
  /\ IF pc'[p] = "preflight"
     THEN \E lsi \in BOOLEAN, lso \in BOOLEAN :
            /\ existing_in' = [ existing_in EXCEPT ![p] =
                                  IF lsi THEN xray.inb ELSE {} ]
            /\ existing_out' = [ existing_out EXCEPT ![p] =
                                   IF lso THEN xray.out ELSE {} ]
            /\ created_in' = [ created_in EXCEPT ![p] = <<>> ]
            /\ created_out' = [ created_out EXCEPT ![p] = <<>> ]
            /\ rule_tags' = [ rule_tags EXCEPT ![p] = <<>> ]
            /\ applied' = [ applied EXCEPT ![p] = {} ]
            /\ UNCHANGED <<xray, removed>>
     ELSE UNCHANGED xvars

\* The preflight pass with xr.add_outbound: skipped when the tag is in
\* existing_out, recorded in created_out when the command succeeds.
PreflightXray(p) ==
  /\ PreflightStep(p)
  /\ LET otag == links[slots[p][cur[p]]].outbound_tag
         passed == replacements'[p] = 0
     IN IF otag \in existing_out[p]
          THEN passed /\ UNCHANGED xvars
        ELSE IF passed
          THEN /\ otag \notin xray.out          \* ado of a tag already there fails
               /\ xray' = [ xray EXCEPT !.out = @ \cup {otag} ]
               /\ created_out' = [ created_out EXCEPT ![p] = Append(@, otag) ]
               /\ existing_out' = [ existing_out EXCEPT ![p] = @ \cup {otag} ]
               /\ UNCHANGED <<existing_in, created_in, rule_tags, applied, removed>>
        ELSE UNCHANGED xvars

\* The add_inbound loop: tags in existing_in are skipped; the first command
\* that fails raises, with the inbounds added before it in created_in.
AddInboundsXray(p) ==
  /\ AddInboundsStep(p)
  /\ LET todo == SelectSeq(InboundTags(p), LAMBDA t : t \notin existing_in[p])
     IN \E done \in Prefixes(todo) :
          /\ IF pc'[p] = "rules" THEN done = todo ELSE done # todo
          /\ SeqToSet(done) \cap xray.inb = {}   \* adi of a tag already there fails
          /\ xray' = [ xray EXCEPT !.inb = @ \cup SeqToSet(done) ]
          /\ created_in' = [ created_in EXCEPT ![p] = @ \o done ]
          /\ existing_in' = [ existing_in EXCEPT ![p] = @ \cup SeqToSet(done) ]
          /\ UNCHANGED <<existing_out, created_out, rule_tags, applied, removed>>

\* build_test_routing_rules, remove_rules (best-effort: the rules in kept
\* stay), apply_rules (a failing command may have put part of the rules).
ApplyRulesXray(p) ==
  /\ ApplyRulesStep(p)
  /\ LET tags == InboundTags(p)
         T == SeqToSet(tags)
     IN \E kept \in SUBSET (T \cap xray.rules), put \in SUBSET T :
          /\ IF pc'[p] = "test" THEN put = T ELSE put # T
          /\ rule_tags' = [ rule_tags EXCEPT ![p] = tags ]
          /\ applied' = [ applied EXCEPT ![p] = put ]
          /\ xray' = [ xray EXCEPT !.rules = (@ \ (T \ kept)) \cup put ]
          /\ UNCHANGED <<existing_in, existing_out, created_in, created_out,
                         removed>>

\* The commands one removal loop issues; ok: the command succeeded or said
\* "not found".
RemovalLog(kind, tags, stuck) ==
  [ i \in 1..Len(tags) |->
      [ kind |-> kind, tag |-> tags[i], ok |-> tags[i] \notin stuck ] ]

\* Mutant of Cleanup: the outbounds go first.
Cleanup_OutboundsFirst(p) ==
  /\ xray' = [ rules |-> xray.rules \ SeqToSet(rule_tags[p]),
               inb |-> xray.inb \ SeqToSet(created_in[p]),
               out |-> xray.out \ SeqToSet(created_out[p]) ]
  /\ removed' = [ removed EXCEPT ![p] =
                    RemovalLog("outbound", created_out[p], {})
                      \o RemovalLog("rule", rule_tags[p], {})
                      \o RemovalLog("inbound", created_in[p], {}) ]
  /\ UNCHANGED <<existing_in, existing_out, created_in, created_out, rule_tags,
                 applied>>

\* The finally block: remove_rules(rule_tags), remove_inbound for created_in,
\* remove_outbound for created_out; the result of a command is not looked at.
\* sr, si, so: the objects whose removal command fails.
Cleanup(p) ==
  \E sr \in SUBSET (SeqToSet(rule_tags[p]) \cap xray.rules),
     si \in SUBSET (SeqToSet(created_in[p]) \cap xray.inb),
     so \in SUBSET (SeqToSet(created_out[p]) \cap xray.out) :
    /\ xray' = [ rules |-> xray.rules \ (SeqToSet(rule_tags[p]) \ sr),
                 inb |-> xray.inb \ (SeqToSet(created_in[p]) \ si),
                 out |-> xray.out \ (SeqToSet(created_out[p]) \ so) ]
    /\ removed' = [ removed EXCEPT ![p] =
                      RemovalLog("rule", rule_tags[p], sr)
                        \o RemovalLog("inbound", created_in[p], si)
                        \o RemovalLog("outbound", created_out[p], so) ]
    /\ UNCHANGED <<existing_in, existing_out, created_in, created_out, rule_tags,
                   applied>>

FinishXray(p) == FinishStep(p) /\ Cleanup(p)

ReleaseXray(p) == ReleaseStep(p) /\ Cleanup(p)

\* A data plane as an earlier, killed batch can have left it.
XrayInit ==
  /\ links = [ r \in Links |->
                FreshLink(IF r = 1 THEN 0 ELSE 1,
                          r # 2,
                          IF r = 3 THEN NULL ELSE r,
                          IF r = 4 THEN 1 ELSE 0,
                          IF r = 5 THEN 1 ELSE 0) ]
  /\ inbound = [ q \in {} |-> FreshInbound ]
  /\ now = 1
  /\ pc = [ p \in Procs |-> "start" ]
  /\ exc = [ p \in Procs |-> "" ]
  /\ count = [ p \in Procs |-> 0 ]
  /\ slots = [ p \in Procs |-> <<>> ]
  /\ cur = [ p \in Procs |-> 0 ]
  /\ replacements = [ p \in Procs |-> 0 ]
  /\ next_idx = [ p \in Procs |-> 0 ]
  /\ in_flight = [ p \in Procs |-> {} ]
  /\ pre = NoSnapshot
  /\ jpc = [ j \in Jobs |-> "idle" ]
  /\ last_id = [ j \in Jobs |-> 0 ]
  /\ imported = FALSE
  /\ xray \in [ out : SUBSET {6}, inb : SUBSET {1}, rules : SUBSET {1} ]
  /\ existing_in = [ p \in Procs |-> {} ]
  /\ existing_out = [ p \in Procs |-> {} ]
  /\ created_in = [ p \in Procs |-> <<>> ]
  /\ created_out = [ p \in Procs |-> <<>> ]
  /\ rule_tags = [ p \in Procs |-> <<>> ]
  /\ applied = [ p \in Procs |-> {} ]
  /\ removed = [ p \in Procs |-> <<>> ]
  /\ BridgeAtRest
  /\ CollectorAtRest
  /\ ApplierAtRest
  /\ PanelAtRest

\* One batch run (process 1) against the data plane.
XrayNext ==
  \/ Tick
  \/ Allocate(1)
  \/ ConnectXray(1)
  \/ PreflightXray(1)
  \/ Replace(1)
  \/ AddInboundsXray(1)
  \/ ApplyRulesXray(1)
  \/ Complete(1)
  \/ ResultBeginFail(1)
  \/ FinishXray(1)
  \/ ReleaseXray(1)
  \/ Kill(1)

XraySpec == XrayInit /\ [][XrayNext]_vars

\* one batch with more prepared pairs than workers
PoolNext ==
  \/ Tick
  \/ Allocate(1)
  \/ XrayConnect(1)
  \/ Preflight(1)
  \/ Replace(1)
  \/ AddInbounds(1)
  \/ ApplyRulesScaled(1)
  \/ CompleteScaled(1)
  \/ ResultBeginFail(1)
  \/ Finish(1)
  \/ Release(1)
  \/ Kill(1)

PoolSpec == Init /\ [][PoolNext]_vars

\* one batch whose probes may fail in every way
ProbeNext ==
  \/ Tick
  \/ Allocate(1)
  \/ XrayConnect(1)
  \/ Preflight(1)
  \/ Replace(1)
  \/ AddInbounds(1)
  \/ ApplyRules(1)
  \/ CompleteAny(1)
  \/ ResultBeginFail(1)
  \/ Finish(1)
  \/ Release(1)
  \/ Kill(1)

ProbeSpec == Init /\ [][ProbeNext]_vars

Next ==
  \/ Tick
  \/ \E p \in Procs :
       \/ Allocate(p)
       \/ XrayConnect(p)
       \/ Preflight(p)
       \/ Replace(p)
       \/ AddInbounds(p)
       \/ ApplyRules(p)
       \/ Complete(p)
       \/ ResultBeginFail(p)
       \/ Finish(p)
       \/ Release(p)
       \/ Kill(p)

Spec == Init /\ [][Next]_vars


\* ====================================================== pipeline jobs
\* importer.py, tag_updater.py, json_updater.py, json_repair_updater.py,
\* hash_updater.py and group_updater.py over the same links table.  Every
\* batch of a job is one store transaction, hence one step.  The control panel
\* (web.py) starts a job on request; the runs are taken one after another here.

\* The URI texts, by number:
\*   1  "vless://A#n1 hysteria2://C"     (two schemes in one line)
\*   2  "hysteria2://C vless://A#n1"     (two schemes in one line)
\*   3  "vless://A#n1"
\*   4  "hysteria2://C"
\*   5  "trojan://B"
\*   6  "vless://A"                      (text 1 or 3 without its fragment)
\*   7  "ss://m:p@D"
\* scheme: ^([a-zA-Z0-9+.-]+):// ; parts: the segments cut at every match of
\* _PROTO_RE ; clean: the text before the first '#' ; ident: the server
\* identity of the outbound the link-parser bridge builds from the text
\* (NULL when the scheme has none).
UrlTable ==
  << [ scheme |-> "vless",     parts |-> <<3, 4>>, clean |-> 6, ident |-> 1 ],
     [ scheme |-> "hysteria2", parts |-> <<4, 3>>, clean |-> 2, ident |-> NULL ],
     [ scheme |-> "vless",     parts |-> <<3>>,    clean |-> 6, ident |-> 1 ],
     [ scheme |-> "hysteria2", parts |-> <<4>>,    clean |-> 4, ident |-> NULL ],
     [ scheme |-> "trojan",    parts |-> <<5>>,    clean |-> 5, ident |-> 2 ],
     [ scheme |-> "vless",     parts |-> <<6>>,    clean |-> 6, ident |-> 1 ],
     [ scheme |-> "ss",        parts |-> <<7>>,    clean |-> 7, ident |-> 3 ] >>

\* The lines of the raw-URIs file (fewer than one import batch).
RawFile == <<1, 2, 5>>

_SUPPORTED_PROTOCOLS == { "vmess", "vless", "ss", "trojan" }          \* importer
SUPPORTED_PROTOCOLS ==
  { "vless", "vmess", "trojan", "ss", "shadowsocks", "shadowsocks2022" }  \* builder
REPAIR_SUPPORTED_PROTOCOLS == { "vmess", "vless", "trojan", "ss" }    \* repairer

_detect_protocol(u) == UrlTable[u].scheme
_split_multi_config_url(u) == UrlTable[u].parts
_strip_fragment(u) == UrlTable[u].clean

\* str(int) for the ids of the table
str(n) == <<"1", "2", "3", "4", "5", "6", "7", "8", "9">>[n]

MinOf(S) == CHOOSE x \in S : \A y \in S : x <= y

\* INSERT OR IGNORE INTO links (url) VALUES (?)  -- url is UNIQUE
insert_or_ignore(L, u) ==
  IF \E r \in DOMAIN L : L[r].url = u THEN L
  ELSE LET id == Cardinality(DOMAIN L) + 1
       IN [ r \in (DOMAIN L) \cup {id} |->
              IF r \in DOMAIN L THEN L[r]
              ELSE [ FreshLink(NULL, FALSE, NULL, 0, 0) EXCEPT !.url = u ] ]

RECURSIVE insert_all(_, _)
insert_all(L, urls) ==
  IF urls = <<>> THEN L
  ELSE insert_all(insert_or_ignore(L, Head(urls)), Tail(urls))

\* ------------------------------------------------ importer
_import_from_raw_file(L) == insert_all(L, RawFile)

NormalizeCandidates(L, last) ==
  Limit(SortedSeq({ r \in DOMAIN L :
                      /\ L[r].config_hash = NULL
                      /\ L[r].url # NULL
                      /\ r > last
                      /\ L[r].is_invalid = 0
                      /\ L[r].is_protocol_unsupported = 0 }), BatchSize)

\* The row loop of one normalization batch.
RECURSIVE _normalize_links(_, _)
_normalize_links(L, rows) ==
  IF rows = <<>> THEN L
  ELSE LET r == Head(rows)
           parts == _split_multi_config_url(L[r].url)
           L1 == IF Len(parts) <= 1 THEN L
                 ELSE [ insert_all(L, parts) EXCEPT ![r].is_invalid = 1 ]
       IN _normalize_links(L1, Tail(rows))

MarkCandidates(L, last) ==
  Limit(SortedSeq({ r \in DOMAIN L :
                      /\ L[r].url # NULL
                      /\ L[r].is_protocol_unsupported = 0
                      /\ r > last
                      /\ L[r].is_invalid = 0 }), BatchSize)

\* Mutant of _mark_unsupported_protocols: no row is marked.
_mark_unsupported_protocols_Nothing(L, rows) == L

\* One marking batch: UPDATE .. SET is_protocol_unsupported = 1, is_invalid = 0
_mark_unsupported_protocols(L, rows) ==
  [ r \in DOMAIN L |->
      IF r \in SeqToSet(rows) /\ _detect_protocol(L[r].url) \notin _SUPPORTED_PROTOCOLS
      THEN [ L[r] EXCEPT !.is_protocol_unsupported = 1, !.is_invalid = 0 ]
      ELSE L[r] ]

Idle == \A j \in Jobs : jpc[j] = "idle"

\* A job moves to position q with cursor c; the other jobs stay.
Goto(j, q, c) ==
  /\ jpc' = [ jpc EXCEPT ![j] = q ]
  /\ last_id' = [ last_id EXCEPT ![j] = c ]

\* A run ends: its loops ran dry, or request_stop was called.
End(j) == Goto(j, "idle", 0)

LastOf(rows) == rows[Len(rows)]

\* import_configs: start of a run and the import of the raw file
ImportRawFile ==
  /\ Idle
  /\ links' = _import_from_raw_file(links)
  /\ Goto("importer", "normalize", 0)
  /\ UNCHANGED imported
  /\ UNCHANGED evars

NormalizeBatch ==
  /\ jpc["importer"] = "normalize"
  /\ LET rows == NormalizeCandidates(links, last_id["importer"])
     IN IF rows = <<>>
        THEN /\ Goto("importer", "mark", 0)
             /\ UNCHANGED links
        ELSE /\ links' = _normalize_links(links, rows)
             /\ Goto("importer", "normalize", LastOf(rows))
  /\ UNCHANGED imported
  /\ UNCHANGED evars

MarkBatch ==
  /\ jpc["importer"] = "mark"
  /\ LET rows == MarkCandidates(links, last_id["importer"])
     IN IF rows = <<>>
        THEN /\ End("importer")
             /\ imported' = TRUE
             /\ UNCHANGED links
        ELSE /\ links' = _mark_unsupported_protocols(links, rows)
             /\ Goto("importer", "mark", LastOf(rows))
             /\ UNCHANGED imported
  /\ UNCHANGED evars

\* request_stop: the next _check_stopped raises; the open transaction is lost
Stop(j) ==
  /\ jpc[j] # "idle"
  /\ j # "group"
  /\ End(j)
  /\ UNCHANGED <<links, imported>>
  /\ UNCHANGED evars


\* ------------------------------------------------ tag allocator
MissingTag(L) == { r \in DOMAIN L : L[r].outbound_tag = NULL }

UsedTags(L) == { L[r].outbound_tag : r \in DOMAIN L } \ {NULL}

\* generate_tag(): a random text.  Either a tag no row carries (named by the
\* id of the row it is generated for) or one that is in use already.
generate_tag(L, id) == {id} \cup UsedTags(L)

\* idx_links_outbound_tag_unique: no other row may carry the same outbound_tag
OutboundTagTaken(L, id, tag) ==
  \E r \in (DOMAIN L) \ {id} : L[r].outbound_tag = tag

\* Mutant of set_outbound_tag: a plain UPDATE on a table without the index.
set_outbound_tag_NoIndex(L, id, tag) ==
  IF L[id].outbound_tag = NULL
  THEN [ L EXCEPT ![id].outbound_tag = tag ]
  ELSE L

\* UPDATE OR IGNORE links SET outbound_tag = ? WHERE id = ? AND (tag is empty)
set_outbound_tag(L, id, tag) ==
  IF L[id].outbound_tag = NULL /\ ~OutboundTagTaken(L, id, tag)
  THEN [ L EXCEPT ![id].outbound_tag = tag ]
  ELSE L

\* One executemany of fill_missing_outbound_tags: params = zip(tags, ids)
RECURSIVE fill_missing_outbound_tags(_, _, _)
fill_missing_outbound_tags(L, ids, tags) ==
  IF ids = <<>> THEN L
  ELSE fill_missing_outbound_tags(set_outbound_tag(L, Head(ids), tags[Head(ids)]),
                                  Tail(ids), tags)

\* ------------------------------------------------ JSON builder
BuilderCandidates(L, last) ==
  Limit(SortedSeq({ r \in DOMAIN L :
                      /\ ~L[r].has_config
                      /\ L[r].url # NULL
                      /\ r > last
                      /\ L[r].is_invalid = 0
                      /\ L[r].is_protocol_unsupported = 0
                      /\ L[r].outbound_tag # NULL }), BatchSize)

\* Mutant of update_missing_json: a row whose conversion failed is left as it is.
update_missing_json_LeavesFailed(L, rows, converted) ==
  [ r \in DOMAIN L |->
      IF r \notin SeqToSet(rows) THEN L[r]
      ELSE IF _detect_protocol(L[r].url) \notin SUPPORTED_PROTOCOLS
        THEN [ L[r] EXCEPT !.is_protocol_unsupported = 1, !.is_invalid = 0 ]
      ELSE IF converted[r]
        THEN [ L[r] EXCEPT !.has_config = TRUE, !.config_tag = L[r].outbound_tag ]
      ELSE L[r] ]

\* Mutant of update_missing_json: the outbound is stored as the bridge made
\* it, without the tag of the row.
update_missing_json_NoTag(L, rows, converted) ==
  [ r \in DOMAIN L |->
      IF r \notin SeqToSet(rows) THEN L[r]
      ELSE IF _detect_protocol(L[r].url) \notin SUPPORTED_PROTOCOLS
        THEN [ L[r] EXCEPT !.is_protocol_unsupported = 1, !.is_invalid = 0 ]
      ELSE IF converted[r]
        THEN [ L[r] EXCEPT !.has_config = TRUE ]
      ELSE [ L[r] EXCEPT !.is_invalid = 1 ] ]

\* The three UPDATEs of one builder batch; converted[r] tells whether the
\* bridge handed back an outbound for the text of row r (it may time out).
update_missing_json(L, rows, converted) ==
  [ r \in DOMAIN L |->
      IF r \notin SeqToSet(rows) THEN L[r]
      ELSE IF _detect_protocol(L[r].url) \notin SUPPORTED_PROTOCOLS
        THEN [ L[r] EXCEPT !.is_protocol_unsupported = 1, !.is_invalid = 0 ]
      ELSE IF converted[r]
        THEN [ L[r] EXCEPT !.has_config = TRUE, !.config_tag = L[r].outbound_tag ]
      ELSE [ L[r] EXCEPT !.is_invalid = 1 ] ]

\* OutboundTagUpdater.run() at the start of update_missing_json: one attempt
\* for the first rows that miss a tag, until no row misses one.
TagBatch ==
  /\ Idle \/ jpc["json"] = "tags"
  /\ LET ids == Limit(SortedSeq(MissingTag(links)), BatchSize)
     IN IF ids = <<>>
        THEN /\ Goto("json", "build", 0)
             /\ UNCHANGED links
        ELSE /\ \E tags \in [ SeqToSet(ids) -> UNION { generate_tag(links, r) :
                                                       r \in SeqToSet(ids) } ] :
                  links' = fill_missing_outbound_tags(links, ids, tags)
             /\ Goto("json", "tags", 0)
  /\ UNCHANGED imported
  /\ UNCHANGED evars

BuildBatch ==
  /\ jpc["json"] = "build"
  /\ LET rows == BuilderCandidates(links, last_id["json"])
     IN IF rows = <<>>
        THEN /\ End("json")
             /\ UNCHANGED links
        ELSE /\ \E converted \in [ SeqToSet(rows) -> BOOLEAN ] :
                  links' = update_missing_json(links, rows, converted)
             /\ Goto("json", "build", LastOf(rows))
  /\ UNCHANGED imported
  /\ UNCHANGED evars

\* ------------------------------------------------ fingerprint (hash) updater
HashCandidates(L, last) ==
  Limit(SortedSeq({ r \in DOMAIN L :
                      /\ L[r].has_config
                      /\ L[r].config_hash = NULL
                      /\ L[r].is_invalid = 0
                      /\ r > last }), BatchSize)

\* One batch of update_hashes.  config_json was written by json.dumps, so
\* json.loads succeeds; a config without identity is skipped.
update_hashes(L, rows) ==
  [ r \in DOMAIN L |->
      IF r \in SeqToSet(rows) /\ UrlTable[L[r].url].ident # NULL
      THEN [ L[r] EXCEPT !.config_hash = UrlTable[L[r].url].ident ]
      ELSE L[r] ]

\* One turn of the loop of update_hashes.
HashBatchStep ==
  /\ LET rows == HashCandidates(links, last_id["hash"])
     IN IF rows = <<>>
        THEN /\ End("hash")
             /\ UNCHANGED links
        ELSE /\ links' = update_hashes(links, rows)
             /\ Goto("hash", "hash", LastOf(rows))
  /\ UNCHANGED imported
  /\ UNCHANGED evars

\* the hash updater, started when no job runs
HashBatch ==
  /\ Idle \/ jpc["hash"] = "hash"
  /\ HashBatchStep

\* ------------------------------------------------ JSON repairer
\* UPDATE links SET repaired_url = NULL WHERE repaired_url non-empty AND is_invalid = 0
clear_repaired_url(L) ==
  [ r \in DOMAIN L |->
      IF L[r].repaired_url # NULL /\ L[r].is_invalid = 0
      THEN [ L[r] EXCEPT !.repaired_url = NULL ]
      ELSE L[r] ]

RepairCandidates(L, last) ==
  Limit(SortedSeq({ r \in DOMAIN L :
                      /\ L[r].is_invalid = 1
                      /\ L[r].is_protocol_unsupported = 0
                      /\ L[r].url # NULL
                      /\ r > last }), BatchSize)

\* vless / trojan: strip fragment.  _repair_vmess / _repair_ss: NULL (the
\* payload does not decode), and the caller falls back to _strip_fragment.
_repair_url(u) ==
  IF _detect_protocol(u) \in { "vless", "trojan" } THEN _strip_fragment(u)
  ELSE NULL

\* Mutant of repair_row: a failed conversion does not store the repaired url.
repair_row_DropsRepaired(L, r, tag, converted) ==
  LET L1 == IF L[r].outbound_tag = NULL THEN set_outbound_tag(L, r, tag) ELSE L
      u == L1[r].url
  IN IF L1[r].outbound_tag = NULL THEN L1
     ELSE IF _detect_protocol(u) \notin REPAIR_SUPPORTED_PROTOCOLS
       THEN [ L1 EXCEPT ![r].is_protocol_unsupported = 1, ![r].is_invalid = 0,
                        ![r].repaired_url = NULL ]
     ELSE IF converted
       THEN [ L1 EXCEPT ![r].has_config = TRUE,
                        ![r].config_tag = L1[r].outbound_tag,
                        ![r].is_invalid = 0, ![r].repaired_url = NULL ]
     ELSE [ L1 EXCEPT ![r].is_invalid = 1 ]

\* One row of the repairer's loop with its UPDATE: tag is what generate_tag
\* returned on every one of the 20 tries of _ensure_outbound_tag_for_id.
repair_row(L, r, tag, converted) ==
  LET L1 == IF L[r].outbound_tag = NULL THEN set_outbound_tag(L, r, tag) ELSE L
      u == L1[r].url
      repaired == IF _repair_url(u) # NULL THEN _repair_url(u)
                  ELSE _strip_fragment(u)
  IN IF L1[r].outbound_tag = NULL THEN L1          \* ValueError: row skipped
     ELSE IF _detect_protocol(u) \notin REPAIR_SUPPORTED_PROTOCOLS
       THEN [ L1 EXCEPT ![r].is_protocol_unsupported = 1, ![r].is_invalid = 0,
                        ![r].repaired_url = NULL ]
     ELSE IF converted
       THEN [ L1 EXCEPT ![r].has_config = TRUE,
                        ![r].config_tag = L1[r].outbound_tag,
                        ![r].is_invalid = 0, ![r].repaired_url = NULL ]
     ELSE [ L1 EXCEPT ![r].repaired_url = repaired, ![r].is_invalid = 1 ]

RECURSIVE repair_and_fill_json(_, _, _, _)
repair_and_fill_json(L, rows, tags, converted) ==
  IF rows = <<>> THEN L
  ELSE repair_and_fill_json(
         repair_row(L, Head(rows), tags[Head(rows)], converted[Head(rows)]),
         Tail(rows), tags, converted)

\* the tag generated for every row of the batch (NULL: the row has one)
RepairTags(L, rows) ==
  { t \in [ SeqToSet(rows) -> {NULL} \cup UNION { generate_tag(L, r) :
                                                   r \in SeqToSet(rows) } ] :
      \A r \in SeqToSet(rows) : (t[r] = NULL) <=> (L[r].outbound_tag # NULL) }

RepairBatch ==
  /\ Idle \/ jpc["json_repair"] = "repair"
  /\ LET L0 == IF Idle THEN clear_repaired_url(links) ELSE links
         rows == RepairCandidates(L0, last_id["json_repair"])
     IN IF rows = <<>>
        THEN /\ End("json_repair")
             /\ links' = L0
        ELSE /\ \E converted \in [ SeqToSet(rows) -> BOOLEAN ],
                   tags \in RepairTags(L0, rows) :
                  links' = repair_and_fill_json(L0, rows, tags, converted)
             /\ Goto("json_repair", "repair", LastOf(rows))
  /\ UNCHANGED imported
  /\ UNCHANGED evars


\* ------------------------------------------------ grouping engine
HashRows(L, h) == { r \in DOMAIN L : L[r].config_hash = h }

Hashes(L) == { L[r].config_hash : r \in DOMAIN L } \ {NULL}

PrimaryRows(L, h) == { r \in HashRows(L, h) : L[r].is_config_primary = 1 }

\* hashes with at least one row whose config_group_id is NULL / ''
_fetch_hashes_needing_group(L) ==
  { h \in Hashes(L) : \E u \in HashRows(L, h) : L[u].config_group_id = "" }

\* complete groups whose primary is wrong
_fetch_hashes_needing_primary_fix(L) ==
  { h \in Hashes(L) :
      /\ ~ \E u \in HashRows(L, h) : L[u].config_group_id = ""
      /\ \/ Cardinality(PrimaryRows(L, h)) # 1
         \/ PrimaryRows(L, h) = {}
         \/ MinOf(PrimaryRows(L, h)) # MinOf(HashRows(L, h)) }

_select_min_id_for_hash(L, h) ==
  IF HashRows(L, h) = {} THEN NULL ELSE MinOf(HashRows(L, h))

\* Mutant of _find_existing_group_id_for_hash: no group id is ever found.
_find_existing_group_id_for_hash_None(L, h) == ""

\* the first non-empty config_group_id of the hash, ORDER BY id; "" when none
_find_existing_group_id_for_hash(L, h) ==
  LET G == { r \in HashRows(L, h) : L[r].config_group_id # "" }
  IN IF G = {} THEN "" ELSE L[MinOf(G)].config_group_id

\* Mutant of _fill_missing_group_id_only: every row without a group id gets
\* the text of its own id.
_fill_missing_group_id_only_OwnId(L, h, group_id) ==
  [ r \in DOMAIN L |->
      IF L[r].config_hash = h /\ L[r].config_group_id = ""
      THEN [ L[r] EXCEPT !.config_group_id = str(r) ]
      ELSE L[r] ]

_fill_missing_group_id_only(L, h, group_id) ==
  [ r \in DOMAIN L |->
      IF L[r].config_hash = h /\ L[r].config_group_id = ""
      THEN [ L[r] EXCEPT !.config_group_id = group_id ]
      ELSE L[r] ]

_get_primary_state(L, h) ==
  [ min_id |-> _select_min_id_for_hash(L, h),
    primary_count |-> Cardinality(PrimaryRows(L, h)),
    primary_min_id |-> IF PrimaryRows(L, h) = {} THEN NULL
                       ELSE MinOf(PrimaryRows(L, h)) ]

\* Mutant of _enforce_primary_min_id: the other rows of the hash keep their flag.
_enforce_primary_min_id_KeepsOthers(L, h, min_id) ==
  [ r \in DOMAIN L |->
      IF L[r].config_hash = h /\ r = min_id
      THEN [ L[r] EXCEPT !.is_config_primary = 1 ]
      ELSE L[r] ]

\* SET is_config_primary = CASE WHEN id = ? THEN 1 ELSE 0 END WHERE config_hash = ?
_enforce_primary_min_id(L, h, min_id) ==
  [ r \in DOMAIN L |->
      IF L[r].config_hash = h
      THEN [ L[r] EXCEPT !.is_config_primary = IF r = min_id THEN 1 ELSE 0 ]
      ELSE L[r] ]

_process_hash_primary_fix_only(L, h) ==
  LET st == _get_primary_state(L, h)
  IN IF st.min_id = NULL THEN L
     ELSE IF st.primary_count = 1 /\ st.primary_min_id = st.min_id THEN L
     ELSE _enforce_primary_min_id(L, h, st.min_id)

\* Mutant of _process_hash_grouping: the group id is always the text of the
\* smallest id and is written to every row of the hash.
_process_hash_grouping_Regroups(L, h) ==
  LET min_id == _select_min_id_for_hash(L, h)
      L1 == [ r \in DOMAIN L |->
                IF L[r].config_hash = h
                THEN [ L[r] EXCEPT !.config_group_id = str(min_id) ]
                ELSE L[r] ]
  IN IF min_id = NULL THEN L
     ELSE _enforce_primary_min_id(L1, h, min_id)

_process_hash_grouping(L, h) ==
  LET min_id == _select_min_id_for_hash(L, h)
      existing == _find_existing_group_id_for_hash(L, h)
      group_id == IF existing = "" THEN str(min_id) ELSE existing
      L1 == _fill_missing_group_id_only(L, h, group_id)
      st == _get_primary_state(L1, h)
  IN IF min_id = NULL THEN L
     ELSE IF st.primary_count = 1 /\ st.primary_min_id = st.min_id THEN L1
     ELSE _enforce_primary_min_id(L1, h, st.min_id)

\* for h in hashes: ... inside one BEGIN IMMEDIATE .. commit
RECURSIVE group_batch(_, _, _)
group_batch(L, hashes, phase) ==
  IF hashes = <<>> THEN L
  ELSE group_batch(IF phase = "phase1" THEN _process_hash_grouping(L, Head(hashes))
                   ELSE _process_hash_primary_fix_only(L, Head(hashes)),
                   Tail(hashes), phase)

\* SELECT DISTINCT .. LIMIT ? without ORDER BY: any batch_size of the hashes
Batches(H) ==
  { B \in SUBSET H : Cardinality(B) = Min(BatchSize, Cardinality(H)) }

GroupFetch(L, phase) ==
  IF phase = "phase1" THEN _fetch_hashes_needing_group(L)
  ELSE _fetch_hashes_needing_primary_fix(L)

\* Mutant of GroupBatch: phase 1 handles one hash and goes on to phase 2
\* instead of looping until no hash needs a group.
GroupBatch_OneHash ==
  /\ Idle \/ jpc["group"] = "phase1"
  /\ LET H == GroupFetch(links, "phase1")
     IN IF H = {}
        THEN UNCHANGED links
        ELSE \E h \in H : links' = group_batch(links, <<h>>, "phase1")
  /\ Goto("group", "phase2", 0)
  /\ UNCHANGED imported
  /\ UNCHANGED evars

\* One turn of the phase-1 loop of update_groups.
GroupBatch ==
  /\ Idle \/ jpc["group"] = "phase1"
  /\ LET H == GroupFetch(links, "phase1")
     IN IF H = {}
        THEN /\ Goto("group", "phase2", 0)
             /\ UNCHANGED links
        ELSE /\ \E B \in Batches(H) :
                  links' = group_batch(links, SortedSeq(B), "phase1")
             /\ Goto("group", "phase1", 0)
  /\ UNCHANGED imported
  /\ UNCHANGED evars

\* One turn of the phase-2 loop of update_groups.
PrimaryBatch ==
  /\ jpc["group"] = "phase2"
  /\ LET H == GroupFetch(links, "phase2")
     IN IF H = {}
        THEN /\ End("group")
             /\ UNCHANGED links
        ELSE /\ \E B \in Batches(H) :
                  links' = group_batch(links, SortedSeq(B), "phase2")
             /\ Goto("group", "phase2", 0)
  /\ UNCHANGED imported
  /\ UNCHANGED evars

\* request_stop during a batch: the for loop breaks, what was processed is
\* committed, and both while loops end.
GroupStop ==
  /\ jpc["group"] # "idle"
  /\ \E B \in Batches(GroupFetch(links, jpc["group"])) :
     \E done \in SUBSET B :
       links' = group_batch(links, SortedSeq(done), jpc["group"])
  /\ End("group")
  /\ UNCHANGED imported
  /\ UNCHANGED evars

\* ------------------------------------------------ pipeline specification
\* An empty store; the test engine is not started.
PipeInit ==
  /\ links = [ r \in {} |-> FreshLink(NULL, FALSE, NULL, 0, 0) ]
  /\ inbound = [ q \in {} |-> FreshInbound ]
  /\ now = 1
  /\ pc = [ p \in Procs |-> "start" ]
  /\ exc = [ p \in Procs |-> "" ]
  /\ count = [ p \in Procs |-> 0 ]
  /\ slots = [ p \in Procs |-> <<>> ]
  /\ cur = [ p \in Procs |-> 0 ]
  /\ replacements = [ p \in Procs |-> 0 ]
  /\ next_idx = [ p \in Procs |-> 0 ]
  /\ in_flight = [ p \in Procs |-> {} ]
  /\ pre = NoSnapshot
  /\ jpc = [ j \in Jobs |-> "idle" ]
  /\ last_id = [ j \in Jobs |-> 0 ]
  /\ imported = FALSE
  /\ xray = NoXray
  /\ existing_in = [ p \in Procs |-> {} ]
  /\ existing_out = [ p \in Procs |-> {} ]
  /\ created_in = [ p \in Procs |-> <<>> ]
  /\ created_out = [ p \in Procs |-> <<>> ]
  /\ rule_tags = [ p \in Procs |-> <<>> ]
  /\ applied = [ p \in Procs |-> {} ]
  /\ removed = [ p \in Procs |-> <<>> ]
  /\ BridgeAtRest
  /\ CollectorAtRest
  /\ ApplierAtRest
  /\ PanelAtRest

PipeNext ==
  \/ ImportRawFile
  \/ NormalizeBatch
  \/ MarkBatch
  \/ TagBatch
  \/ BuildBatch
  \/ HashBatch
  \/ RepairBatch
  \/ GroupBatch
  \/ PrimaryBatch
  \/ GroupStop
  \/ \E j \in Jobs : Stop(j)

PipeSpec == PipeInit /\ [][PipeNext]_vars

\* ------------------------------------------------ hash and group runs overlap
\* The control panel keeps one running flag per job, so a hash run and a group
\* run may be under way together; each commits its batches one by one.
OthersIdle == \A j \in Jobs \ { "hash", "group" } : jpc[j] = "idle"

\* a batch of the hash updater while the group updater may be running
HashOverlap ==
  /\ OthersIdle
  /\ HashBatchStep

\* A phase-1 batch of the group updater while the hash updater may be running.
\* The hashes are fetched before BEGIN IMMEDIATE: what is processed is what an
\* earlier state needed grouping, a part of what needs grouping now.
GroupOverlap ==
  /\ OthersIdle
  /\ jpc["group"] \in { "idle", "phase1" }
  /\ LET H == GroupFetch(links, "phase1")
     IN IF H = {}
        THEN /\ Goto("group", "phase2", 0)
             /\ UNCHANGED links
        ELSE /\ \E B \in SUBSET H :
                  /\ B # {}
                  /\ Cardinality(B) <= BatchSize
                  /\ links' = group_batch(links, SortedSeq(B), "phase1")
             /\ Goto("group", "phase1", 0)
  /\ UNCHANGED imported
  /\ UNCHANGED evars

OverlapNext ==
  \/ ImportRawFile
  \/ NormalizeBatch
  \/ MarkBatch
  \/ TagBatch
  \/ BuildBatch
  \/ RepairBatch
  \/ HashOverlap
  \/ GroupOverlap
  \/ PrimaryBatch
  \/ GroupStop
  \/ \E j \in Jobs : Stop(j)

OverlapSpec == PipeInit /\ [][OverlapNext]_vars


\* ------------------------------------------------ tags and slots together
\* A store the pipeline has been through once (rows 1..4 of a first raw file:
\* three tested-to-be primaries and one unsupported record), with two rows of
\* a later importer run that have no tag yet: row 5, a multi-URI text the
\* normalization marked invalid, and row 6.  The outbound of row 3 names a
\* cipher the data plane does not know.
Primary(u, tag, hash, cipher) ==
  [ FreshLink(1, TRUE, tag, 0, 0) EXCEPT !.url = u, !.config_tag = tag,
                                         !.config_hash = hash,
                                         !.config_group_id = str(tag),
                                         !.cipher_known = cipher ]

TagInit ==
  /\ links = << Primary(3, 1, 1, TRUE),
                Primary(5, 2, 2, TRUE),
                Primary(7, 3, 3, FALSE),
                [ FreshLink(NULL, FALSE, 4, 0, 1) EXCEPT !.url = 4 ],
                [ FreshLink(NULL, FALSE, NULL, 1, 0) EXCEPT !.url = 1 ],
                [ FreshLink(NULL, FALSE, NULL, 0, 0) EXCEPT !.url = 6 ] >>
  /\ inbound = [ q \in {} |-> FreshInbound ]
  /\ now = 1
  /\ pc = [ p \in Procs |-> "start" ]
  /\ exc = [ p \in Procs |-> "" ]
  /\ count = [ p \in Procs |-> 0 ]
  /\ slots = [ p \in Procs |-> <<>> ]
  /\ cur = [ p \in Procs |-> 0 ]
  /\ replacements = [ p \in Procs |-> 0 ]
  /\ next_idx = [ p \in Procs |-> 0 ]
  /\ in_flight = [ p \in Procs |-> {} ]
  /\ pre = NoSnapshot
  /\ jpc = [ j \in Jobs |-> "idle" ]
  /\ last_id = [ j \in Jobs |-> 0 ]
  /\ imported = TRUE
  /\ xray = NoXray
  /\ existing_in = [ p \in Procs |-> {} ]
  /\ existing_out = [ p \in Procs |-> {} ]
  /\ created_in = [ p \in Procs |-> <<>> ]
  /\ created_out = [ p \in Procs |-> <<>> ]
  /\ rule_tags = [ p \in Procs |-> <<>> ]
  /\ applied = [ p \in Procs |-> {} ]
  /\ removed = [ p \in Procs |-> <<>> ]
  /\ BridgeAtRest
  /\ CollectorAtRest
  /\ ApplierAtRest
  /\ PanelAtRest

\* One run of the test engine (process 1) beside the tag allocator (at the
\* start of the JSON builder) and the JSON repairer.
TagNext ==
  \/ Tick
  \/ Allocate(1)
  \/ XrayConnect(1)
  \/ Preflight(1)
  \/ Replace(1)
  \/ AddInbounds(1)
  \/ ApplyRules(1)
  \/ Complete(1)
  \/ ResultBeginFail(1)
  \/ Finish(1)
  \/ Release(1)
  \/ Kill(1)
  \/ TagBatch
  \/ BuildBatch
  \/ RepairBatch
  \/ \E j \in { "json", "json_repair" } : Stop(j)

TagSpec == TagInit /\ [][TagNext]_vars

\* ------------------------------------------------ grouping beside a batch
\* Rows 2, 3 and 4 are grouped primaries.  Row 1 received its config and its
\* hash later (the hash of row 2) and is not grouped yet: the next grouping run
\* fills its group and elects it, the smallest id of the hash.
PrimacyInit ==
  /\ links = << [ Primary(3, 1, 2, TRUE) EXCEPT !.is_config_primary = NULL,
                                                !.config_group_id = "" ],
                Primary(5, 2, 2, TRUE),
                Primary(7, 3, 3, TRUE),
                Primary(6, 4, 4, TRUE) >>
  /\ inbound = [ q \in {} |-> FreshInbound ]
  /\ now = 1
  /\ pc = [ p \in Procs |-> "start" ]
  /\ exc = [ p \in Procs |-> "" ]
  /\ count = [ p \in Procs |-> 0 ]
  /\ slots = [ p \in Procs |-> <<>> ]
  /\ cur = [ p \in Procs |-> 0 ]
  /\ replacements = [ p \in Procs |-> 0 ]
  /\ next_idx = [ p \in Procs |-> 0 ]
  /\ in_flight = [ p \in Procs |-> {} ]
  /\ pre = NoSnapshot
  /\ jpc = [ j \in Jobs |-> "idle" ]
  /\ last_id = [ j \in Jobs |-> 0 ]
  /\ imported = TRUE
  /\ xray = NoXray
  /\ existing_in = [ p \in Procs |-> {} ]
  /\ existing_out = [ p \in Procs |-> {} ]
  /\ created_in = [ p \in Procs |-> <<>> ]
  /\ created_out = [ p \in Procs |-> <<>> ]
  /\ rule_tags = [ p \in Procs |-> <<>> ]
  /\ applied = [ p \in Procs |-> {} ]
  /\ removed = [ p \in Procs |-> <<>> ]
  /\ BridgeAtRest
  /\ CollectorAtRest
  /\ ApplierAtRest
  /\ PanelAtRest

\* One run of the test engine (process 1) beside one run of the group updater.
PrimacyNext ==
  \/ Tick
  \/ Allocate(1)
  \/ XrayConnect(1)
  \/ Preflight(1)
  \/ Replace(1)
  \/ AddInbounds(1)
  \/ ApplyRules(1)
  \/ Complete(1)
  \/ ResultBeginFail(1)
  \/ Finish(1)
  \/ Release(1)
  \/ Kill(1)
  \/ GroupBatch
  \/ PrimaryBatch
  \/ GroupStop

PrimacySpec == PrimacyInit /\ [][PrimacyNext]_vars

\* ------------------------------------------------ link-parser bridge
\* everything but the bridge and its callers
storevars == <<links, inbound, now, pc, exc, count, slots, cur, replacements,
               next_idx, in_flight, pre, jpc, last_id, imported, xvars, cvars,
               avars, wvars>>

\* The texts of the exceptions the bridge raises, word by word.
MsgNullOrTimedOut ==
  << "Node", "bridge", "returned", "null/err", "or", "timed", "out." >>
MsgNotReadyInTime ==
  << "Node", "bridge", "did", "not", "signal", "READY", "in", "time." >>
MsgExitedBeforeReady == << "Node", "bridge", "exited", "before", "READY." >>
MsgDisposed == << "Converter", "is", "disposed." >>

\* _wait_ready(): what a Node process that does not come up makes it raise
StartFailures == { MsgNotReadyInTime, MsgExitedBeforeReady }

\* str.lower() of one word
lower(w) ==
  CASE w = "Node" -> "node"
    [] w = "READY" -> "ready"
    [] w = "READY." -> "ready."
    [] w = "Converter" -> "converter"
    [] OTHER -> w

\* "timeout" in msg.lower(): the text has no blank, so one word holds it
ContainsTimeout(msg) ==
  \E i \in DOMAIN msg : lower(msg[i]) \in { "timeout", "timeout.", "timeout:" }

\* "not ready" in msg.lower(): a word that ends in "not", a blank, and a word
\* that starts with "ready"
ContainsNotReady(msg) ==
  \E i \in 1..(Len(msg) - 1) :
    /\ lower(msg[i]) = "not"
    /\ lower(msg[i + 1]) \in { "ready", "ready." }

\* the test of _convert_with_one_retry for a transient failure
Transient(msg) == ContainsTimeout(msg) \/ ContainsNotReady(msg)

\* Popen: the next Node process
FreeNodes == { n \in NodeProcs : node[n].state = "none" }
NewNode == CHOOSE n \in FreeNodes : \A m \in FreeNodes : n <= m

\* NodeLinkConverter(): the next converter object
FreeConverters == { c \in Converters : ~_disposed[c] }
NewConverter == CHOOSE c \in FreeConverters : \A d \in FreeConverters : c <= d

Running(n) == n # NULL /\ node[n].state = "running"

\* the request a thread has on its way: its name and the number of its call
Request(t) == << t, caller[t].calls >>

\* Mutant of _kill_process_silently: the process is left running and stays
\* the converter's process.
_kill_process_silently_Keeps(c) == UNCHANGED << _proc, node >>

\* self._proc = None, and the process it named is killed and reaped
_kill_process_silently(c) ==
  /\ _proc' = [ _proc EXCEPT ![c] = NULL ]
  /\ node' = IF _proc[c] = NULL THEN node
             ELSE [ node EXCEPT ![_proc[c]].state = "dead" ]

\* convert() hands back None and leaves "with self._io_lock";
\* convert_to_outbound() makes an exception of the None
ReturnNone(t, why) ==
  /\ caller' = [ caller EXCEPT ![t].pc = "returned", ![t].result = NoLine,
                               ![t].cause = why, ![t].msg = MsgNullOrTimedOut ]
  /\ _io_lock' = [ _io_lock EXCEPT ![caller[t].conv] = "" ]

\* a job thread reaches the conversion of its next url
BeginCall(t) ==
  /\ caller[t].pc = "idle"
  /\ ~stop_event[t]
  /\ caller[t].calls < MaxCalls
  /\ caller' = [ caller EXCEPT ![t] =
                   [ CallerAtRest EXCEPT !.pc = "get", !.try = 1,
                                         !.calls = caller[t].calls + 1 ] ]
  /\ UNCHANGED << _converter, _proc, _io_lock, _disposed, node, closer,
                  stop_event >>
  /\ UNCHANGED storevars

\* _get_converter(), under _converter_lock: the shared converter, made (with
\* its Node process) when there is none
GetConverter(t) ==
  /\ caller[t].pc = "get"
  /\ closer.pc = "idle"
  /\ IF _converter # NULL
     THEN /\ caller' = [ caller EXCEPT ![t].pc = "enter", ![t].conv = _converter ]
          /\ UNCHANGED << _converter, _proc, node >>
     ELSE /\ FreeConverters # {} /\ FreeNodes # {}
          /\ \/ /\ node' = [ node EXCEPT ![NewNode].state = "running" ]
                /\ _proc' = [ _proc EXCEPT ![NewConverter] = NewNode ]
                /\ _converter' = NewConverter
                /\ caller' = [ caller EXCEPT ![t].pc = "enter",
                                             ![t].conv = NewConverter ]
             \/ /\ node' = [ node EXCEPT ![NewNode].state = "dead" ]
                /\ \E m \in StartFailures :
                     caller' = [ caller EXCEPT ![t].pc = "returned",
                                               ![t].cause = "start",
                                               ![t].msg = m ]
                /\ UNCHANGED << _converter, _proc >>
  /\ UNCHANGED << _io_lock, _disposed, closer, stop_event >>
  /\ UNCHANGED storevars

\* convert(): "if self._disposed: raise"
Enter(t) ==
  /\ caller[t].pc = "enter"
  /\ IF _disposed[caller[t].conv]
     THEN caller' = [ caller EXCEPT ![t].pc = "returned",
                                    ![t].cause = "disposed",
                                    ![t].msg = MsgDisposed ]
     ELSE caller' = [ caller EXCEPT ![t].pc = "lock" ]
  /\ UNCHANGED << _converter, _proc, _io_lock, _disposed, node, closer,
                  stop_event >>
  /\ UNCHANGED storevars

\* with self._io_lock:
Acquire(t) ==
  /\ caller[t].pc = "lock"
  /\ _io_lock[caller[t].conv] = ""
  /\ _io_lock' = [ _io_lock EXCEPT ![caller[t].conv] = t ]
  /\ caller' = [ caller EXCEPT ![t].pc = "ensure" ]
  /\ UNCHANGED << _converter, _proc, _disposed, node, closer, stop_event >>
  /\ UNCHANGED storevars

\* "if proc is None or proc.poll() is not None: self._start_process()"
EnsureProc(t) ==
  LET c == caller[t].conv IN
  /\ caller[t].pc = "ensure"
  /\ IF Running(_proc[c])
     THEN /\ caller' = [ caller EXCEPT ![t].pc = "write", ![t].proc = _proc[c] ]
          /\ UNCHANGED << _proc, node, _io_lock >>
     ELSE /\ FreeNodes # {}
          /\ \/ /\ node' = [ node EXCEPT ![NewNode].state = "running" ]
                /\ _proc' = [ _proc EXCEPT ![c] = NewNode ]
                /\ caller' = [ caller EXCEPT ![t].pc = "write",
                                             ![t].proc = NewNode ]
                /\ UNCHANGED _io_lock
             \/ /\ node' = [ node EXCEPT ![NewNode].state = "dead" ]
                /\ _proc' = [ _proc EXCEPT ![c] = NULL ]
                /\ \E m \in StartFailures :
                     caller' = [ caller EXCEPT ![t].pc = "returned",
                                               ![t].cause = "start",
                                               ![t].msg = m ]
                /\ _io_lock' = [ _io_lock EXCEPT ![c] = "" ]
  /\ UNCHANGED << _converter, _disposed, closer, stop_event >>
  /\ UNCHANGED storevars

\* proc.stdin.write(normalized + "\n"); proc.stdin.flush()
Write(t) ==
  LET n == caller[t].proc IN
  /\ caller[t].pc = "write"
  /\ IF Running(n)
     THEN /\ node' = [ node EXCEPT ![n].stdin = Append(@, Request(t)) ]
          /\ caller' = [ caller EXCEPT ![t].pc = "select" ]
          /\ UNCHANGED << _proc, _io_lock >>
     ELSE \/ /\ _kill_process_silently(caller[t].conv)
             /\ ReturnNone(t, "write")
          \/ /\ caller' = [ caller EXCEPT ![t].pc = "select" ]
             /\ UNCHANGED << _proc, node, _io_lock >>
  /\ UNCHANGED << _converter, _disposed, closer, stop_event >>
  /\ UNCHANGED storevars

\* select.select([proc.stdout], [], [], to) and proc.stdout.readline()
Select(t) ==
  LET n == caller[t].proc
      line == Head(node[n].stdout)
  IN
  /\ caller[t].pc = "select"
  /\ IF node[n].stdout # << >>
     THEN /\ node' = [ node EXCEPT ![n].stdout = Tail(@) ]
          /\ IF line.kind = "json"
             THEN /\ caller' = [ caller EXCEPT ![t].pc = "returned",
                                               ![t].result = line ]
                  /\ _io_lock' = [ _io_lock EXCEPT ![caller[t].conv] = "" ]
             ELSE ReturnNone(t, line.kind)
          /\ UNCHANGED _proc
     ELSE /\ _kill_process_silently(caller[t].conv)
          /\ ReturnNone(t, IF Running(n) THEN "timeout" ELSE "eof")
  /\ UNCHANGED << _converter, _disposed, closer, stop_event >>
  /\ UNCHANGED storevars

\* _convert_with_one_retry() in the builder, _convert_to_outbound_json_text()
\* in the repairer, and what the job makes of the url
AfterCall(t) ==
  /\ caller[t].pc = "returned"
  /\ IF caller[t].msg = NoMsg
     THEN caller' = [ caller EXCEPT ![t].pc = "idle", ![t].verdict = "converted" ]
     ELSE IF t = "json" /\ caller[t].try = 1 /\ Transient(caller[t].msg)
       THEN caller' = [ caller EXCEPT ![t] =
                          [ CallerAtRest EXCEPT
                              !.pc = "get", !.try = 2,
                              !.calls = caller[t].calls + 1,
                              !.first_cause = caller[t].cause ] ]
     ELSE caller' = [ caller EXCEPT
                        ![t].pc = "idle", ![t].verdict = "invalid",
                        ![t].first_cause = IF caller[t].try = 1
                                           THEN caller[t].cause ELSE @ ]
  /\ UNCHANGED << _converter, _proc, _io_lock, _disposed, node, closer,
                  stop_event >>
  /\ UNCHANGED storevars

\* rl.on('line'): one line of stdin, one line on stdout
NodeStep(n) ==
  /\ node[n].state = "running"
  /\ node[n].stdin # << >>
  /\ \E kind \in { "json", "null", "err" } :
       node' = [ node EXCEPT
                   ![n].stdin = Tail(@),
                   ![n].stdout = Append(@, [ req |-> Head(node[n].stdin),
                                             kind |-> kind ]) ]
  /\ UNCHANGED << _converter, _proc, _io_lock, _disposed, caller, closer,
                  stop_event >>
  /\ UNCHANGED storevars

\* the Node process exits by itself
NodeExit(n) ==
  /\ node[n].state = "running"
  /\ node' = [ node EXCEPT ![n].state = "dead" ]
  /\ UNCHANGED << _converter, _proc, _io_lock, _disposed, caller, closer,
                  stop_event >>
  /\ UNCHANGED storevars

\* request_stop() of job t: the stop event, then close_global_converter(),
\* which takes _converter_lock and, in close(), sets _disposed
request_stop(t) ==
  /\ closer.pc = "idle"
  /\ closer.stops < MaxStops
  /\ ~stop_event[t]
  /\ stop_event' = [ stop_event EXCEPT ![t] = TRUE ]
  /\ IF _converter = NULL
     THEN /\ closer' = [ closer EXCEPT !.stops = @ + 1 ]
          /\ UNCHANGED _disposed
     ELSE /\ closer' = [ closer EXCEPT !.stops = @ + 1, !.pc = "unset" ]
          /\ _disposed' = [ _disposed EXCEPT ![_converter] = TRUE ]
  /\ UNCHANGED << _converter, _proc, _io_lock, node, caller >>
  /\ UNCHANGED storevars

\* close() -> _kill_process_silently(), outside _io_lock:
\* "proc = self._proc; self._proc = None"
CloseUnset ==
  /\ closer.pc = "unset"
  /\ closer' = [ closer EXCEPT !.pc = "kill", !.proc = _proc[_converter] ]
  /\ _proc' = [ _proc EXCEPT ![_converter] = NULL ]
  /\ UNCHANGED << _converter, _io_lock, _disposed, node, caller, stop_event >>
  /\ UNCHANGED storevars

\* "proc.kill(); proc.wait(timeout=2.0)"
CloseKill ==
  /\ closer.pc = "kill"
  /\ closer' = [ closer EXCEPT !.pc = "forget", !.proc = NULL ]
  /\ node' = IF closer.proc = NULL THEN node
             ELSE [ node EXCEPT ![closer.proc].state = "dead" ]
  /\ UNCHANGED << _converter, _proc, _io_lock, _disposed, caller, stop_event >>
  /\ UNCHANGED storevars

\* close_global_converter(): "finally: _converter = None"
CloseForget ==
  /\ closer.pc = "forget"
  /\ closer' = [ closer EXCEPT !.pc = "idle" ]
  /\ _converter' = NULL
  /\ UNCHANGED << _proc, _io_lock, _disposed, node, caller, stop_event >>
  /\ UNCHANGED storevars

BridgeInit == PipeInit

BridgeNext ==
  \/ \E t \in BridgeThreads : BeginCall(t)
  \/ \E t \in BridgeThreads : GetConverter(t)
  \/ \E t \in BridgeThreads : Enter(t)
  \/ \E t \in BridgeThreads : Acquire(t)
  \/ \E t \in BridgeThreads : EnsureProc(t)
  \/ \E t \in BridgeThreads : Write(t)
  \/ \E t \in BridgeThreads : Select(t)
  \/ \E t \in BridgeThreads : AfterCall(t)
  \/ \E n \in NodeProcs : NodeStep(n)
  \/ \E n \in NodeProcs : NodeExit(n)
  \/ \E t \in BridgeThreads : request_stop(t)
  \/ CloseUnset
  \/ CloseKill
  \/ CloseForget

BridgeSpec == BridgeInit /\ [][BridgeNext]_vars

\* ------------------------------------------------ collector
max_retries == 3                 \* _fetch_url_with_retry(..., max_retries=3)

\* everything but the collector
restvars == <<links, inbound, now, pc, exc, count, slots, cur, replacements,
              next_idx, in_flight, pre, jpc, last_id, imported, xvars, bvars,
              avars, wvars>>

\* what one session.get() and the reading of its answer come to
FetchOutcomes == { "configs", "noconfigs", "empty", "reqerror", "error" }

\* The loop of _remove_source_from_file: blank and comment lines are kept, the
\* first line whose stripped text is the url is left out.
RECURSIVE new_lines(_, _)
new_lines(lines, url) ==
  IF lines = << >> THEN << >>
  ELSE IF IsBlankOrComment(Head(lines))
    THEN << Head(lines) >> \o new_lines(Tail(lines), url)
  ELSE IF strip(Head(lines)) = url THEN Tail(lines)
  ELSE << Head(lines) >> \o new_lines(Tail(lines), url)

\* Mutant of SourcesLockFree: the file is read and written without the lock.
SourcesLockFree_NoLock == TRUE

\* "with self._sources_lock" can be entered
SourcesLockFree == _sources_lock = ""

\* the attempt has failed: "if attempt < max_retries - 1: ... time.sleep(1.0);
\* continue", otherwise give up and return None
RetryOrGiveUp(u) ==
  IF task[u].attempt < max_retries - 1
  THEN task' = [ task EXCEPT ![u].pc = "sleep", ![u].attempt = @ + 1 ]
  ELSE task' = [ task EXCEPT ![u].pc = "fetched", ![u].content = "none" ]

\* self._check_stopped() at the head of _process_single_source and of every
\* attempt of _fetch_url_with_retry
AttemptBegin(u) ==
  /\ task[u].pc \in { "queued", "sleep" }
  /\ task' = [ task EXCEPT ![u].pc = IF _stop_event THEN "stopped" ELSE "get" ]
  /\ UNCHANGED << sources_file, _sources_lock, _stop_event >>
  /\ UNCHANGED restvars

\* session.get(), raise_for_status(), resp.text and the except clauses
AttemptEnd(u) ==
  /\ task[u].pc = "get"
  /\ \E outcome \in FetchOutcomes :
       CASE outcome \in { "configs", "noconfigs" } ->
              task' = [ task EXCEPT ![u].pc = "fetched", ![u].content = outcome ]
         [] outcome = "empty" -> RetryOrGiveUp(u)
         [] outcome = "reqerror" ->
              IF _stop_event
              THEN task' = [ task EXCEPT ![u].pc = "stopped" ]
              ELSE RetryOrGiveUp(u)
         [] outcome = "error" ->
              task' = [ task EXCEPT ![u].pc = "fetched", ![u].content = "error" ]
  /\ UNCHANGED << sources_file, _sources_lock, _stop_event >>
  /\ UNCHANGED restvars

\* _process_single_source after the fetch: stopped, or configs found, or the
\* source goes to failed_urls and is to be removed
AfterFetch(u) ==
  /\ task[u].pc = "fetched"
  /\ task' = [ task EXCEPT ![u].pc =
                 IF _stop_event THEN "stopped"
                 ELSE IF task[u].content = "configs" THEN "done"
                 ELSE "remove" ]
  /\ UNCHANGED << sources_file, _sources_lock, _stop_event >>
  /\ UNCHANGED restvars

\* _remove_source_from_file: "with self._sources_lock: lines = f.readlines()"
RemoveRead(u) ==
  /\ task[u].pc = "remove"
  /\ SourcesLockFree
  /\ _sources_lock' = u
  /\ task' = [ task EXCEPT ![u].pc = "write", ![u].lines = sources_file ]
  /\ UNCHANGED << sources_file, _stop_event >>
  /\ UNCHANGED restvars

\* "if removed: f.writelines(new_lines)", and the lock is left
RemoveWrite(u) ==
  /\ task[u].pc = "write"
  /\ sources_file' = IF new_lines(task[u].lines, u) # task[u].lines
                     THEN new_lines(task[u].lines, u)
                     ELSE sources_file
  /\ _sources_lock' = IF _sources_lock = u THEN "" ELSE _sources_lock
  /\ task' = [ task EXCEPT ![u].pc = "removed", ![u].lines = << >> ]
  /\ UNCHANGED _stop_event
  /\ UNCHANGED restvars

\* SubscriptionCollector.request_stop()
CollectorRequestStop ==
  /\ ~_stop_event
  /\ _stop_event' = TRUE
  /\ UNCHANGED << sources_file, task, _sources_lock >>
  /\ UNCHANGED restvars

CollectorInit == PipeInit

CollectorNext ==
  \/ \E u \in Sources : AttemptBegin(u)
  \/ \E u \in Sources : AttemptEnd(u)
  \/ \E u \in Sources : AfterFetch(u)
  \/ \E u \in Sources : RemoveRead(u)
  \/ \E u \in Sources : RemoveWrite(u)
  \/ CollectorRequestStop

CollectorSpec == CollectorInit /\ [][CollectorNext]_vars

\* ------------------------------------------------ runtime applier
\* everything but the applier
basevars == <<links, inbound, now, pc, exc, count, slots, cur, replacements,
              next_idx, in_flight, pre, jpc, last_id, imported, xvars, bvars,
              cvars, wvars>>

\* The two threads that share one XrayRuntimeApplier.
APPLYING == "applying"
DIRECT == "direct"

\* Snapshots a caller may hand in: tag NULL is an item without "tag"; routing
\* is absent ("None"), an object ("dict") or something else ("text").
Snapshots ==
  [ outbounds : { << 1, 2 >>, << NULL >> },
    inbounds : { << >>, << 1 >> },
    routing : { "None", "dict", "text" },
    remove_outbound_tags : { << >>, << 3 >> },
    remove_inbound_tags : { << >>, << 3 >> },
    remove_rule_tags : { << >>, << 1 >> } ]

\* _require_ready(): nothing wrong, or the code of what is
ReadyOutcomes == { "", "XRAY_BIN_NOT_SET", "XRAY_BIN_NOT_FOUND" }

\* What one _try_add_outbound / _try_add_inbound comes to: the add succeeds or
\* fails, or it fails with "exist" in stderr (exist_retry), the tag is removed
\* and the second add succeeds or fails.
AddOutcomes == { "ok", "fail", "exist_ok", "exist_fail" }

_try_add(add, rm, tag, o) ==
  [ ok |-> o \in { "ok", "exist_ok" },
    run |-> IF o \in { "ok", "fail" } THEN << <<add, tag>> >>
            ELSE << <<add, tag>>, <<rm, tag>>, <<add, tag>> >> ]

\* "return {...}" inside "with self._lock": the result, and the lock released
ApplyReturn(ok, code) ==
  /\ apply_result' = [ ok |-> ok, error_code |-> code ]
  /\ apply_pc' = "returned"
  /\ _lock' = ""

\* threading.Lock.acquire() as "with self._lock" does it: whoever holds the
\* lock, the caller itself included, the call waits until it is free.
LockFree(t) == _lock = ""

\* apply_snapshot(snapshot) is called
ApplyCall ==
  /\ apply_pc \in { "idle", "returned" }
  /\ \E s \in Snapshots : snapshot' = s
  /\ apply_pc' = "enter"
  /\ step_idx' = 0
  /\ commands' = << >>
  /\ apply_result' = NoResult
  /\ UNCHANGED <<_lock, direct_pc>>
  /\ UNCHANGED basevars

\* "with self._lock:" of apply_snapshot
ApplyEnter ==
  /\ apply_pc = "enter"
  /\ LockFree(APPLYING)
  /\ _lock' = APPLYING
  /\ apply_pc' = "check"
  /\ UNCHANGED <<snapshot, step_idx, commands, apply_result, direct_pc>>
  /\ UNCHANGED basevars

\* _apply_snapshot_locked up to the first command: readiness and validation
ApplyCheck ==
  /\ apply_pc = "check"
  /\ \E e \in ReadyOutcomes :
       IF e # ""
       THEN /\ ApplyReturn(FALSE, e)
            /\ UNCHANGED step_idx
       ELSE IF \/ \E i \in DOMAIN snapshot.outbounds : snapshot.outbounds[i] = NULL
               \/ \E i \in DOMAIN snapshot.inbounds : snapshot.inbounds[i] = NULL
       THEN /\ ApplyReturn(FALSE, "INVALID_SNAPSHOT")
            /\ UNCHANGED step_idx
       ELSE /\ apply_pc' = "outbounds"
            /\ step_idx' = 1
            /\ UNCHANGED <<_lock, apply_result>>
  /\ UNCHANGED <<snapshot, commands, direct_pc>>
  /\ UNCHANGED basevars

\* 1) one turn of "for ob in outbounds", or the end of the loop
ApplyOutbound ==
  /\ apply_pc = "outbounds"
  /\ IF step_idx > Len(snapshot.outbounds)
     THEN /\ apply_pc' = "inbounds"
          /\ step_idx' = 1
          /\ UNCHANGED <<_lock, commands, apply_result>>
     ELSE \E o \in AddOutcomes :
          LET r == _try_add("ado", "rmo", snapshot.outbounds[step_idx], o)
          IN /\ commands' = commands \o r.run
             /\ IF r.ok
                THEN /\ step_idx' = step_idx + 1
                     /\ UNCHANGED <<_lock, apply_pc, apply_result>>
                ELSE /\ ApplyReturn(FALSE, "APPLY_OUTBOUNDS_FAILED")
                     /\ UNCHANGED step_idx
  /\ UNCHANGED <<snapshot, direct_pc>>
  /\ UNCHANGED basevars

\* 2) one turn of "for ib in inbounds", or the end of the loop
ApplyInbound ==
  /\ apply_pc = "inbounds"
  /\ IF step_idx > Len(snapshot.inbounds)
     THEN /\ apply_pc' = "rules"
          /\ step_idx' = 1
          /\ UNCHANGED <<_lock, commands, apply_result>>
     ELSE \E o \in AddOutcomes :
          LET r == _try_add("adi", "rmi", snapshot.inbounds[step_idx], o)
          IN /\ commands' = commands \o r.run
             /\ IF r.ok
                THEN /\ step_idx' = step_idx + 1
                     /\ UNCHANGED <<_lock, apply_pc, apply_result>>
                ELSE /\ ApplyReturn(FALSE, "APPLY_INBOUNDS_FAILED")
                     /\ UNCHANGED step_idx
  /\ UNCHANGED <<snapshot, direct_pc>>
  /\ UNCHANGED basevars

\* the rmrules / rmo / rmi commands for a list of tags
RemoveCommands(sub, tags) == [ i \in DOMAIN tags |-> <<sub, tags[i]>> ]

\* 3) "if remove_rule_tags: rr = self.remove_rules(...)": the public method,
\* which takes self._lock, runs rmrules for every tag and reports the failures.
ApplyRemoveRules ==
  /\ apply_pc = "rules"
  /\ IF snapshot.remove_rule_tags = << >>
     THEN /\ apply_pc' = "routing"
          /\ UNCHANGED <<_lock, commands, apply_result>>
     ELSE /\ LockFree(APPLYING)
          /\ commands' = commands \o RemoveCommands("rmrules", snapshot.remove_rule_tags)
          /\ \E errors \in SUBSET DOMAIN snapshot.remove_rule_tags :
               IF errors = {}
               THEN /\ apply_pc' = "routing"
                    /\ _lock' = ""
                    /\ UNCHANGED apply_result
               ELSE ApplyReturn(FALSE, "REMOVE_RULES_FAILED")
  /\ UNCHANGED <<snapshot, step_idx, direct_pc>>
  /\ UNCHANGED basevars

\* "if routing is not None: ... self.apply_rules(routing, ...)": the public
\* method, which takes self._lock and runs adrules.
ApplyRouting ==
  /\ apply_pc = "routing"
  /\ IF snapshot.routing = "None"
     THEN /\ apply_pc' = "removals"
          /\ UNCHANGED <<_lock, commands, apply_result>>
     ELSE IF snapshot.routing # "dict"
     THEN /\ ApplyReturn(FALSE, "INVALID_SNAPSHOT")
          /\ UNCHANGED commands
     ELSE /\ LockFree(APPLYING)
          /\ commands' = Append(commands, <<"adrules", NULL>>)
          /\ \E ok \in BOOLEAN :
               IF ok
               THEN /\ apply_pc' = "removals"
                    /\ _lock' = ""
                    /\ UNCHANGED apply_result
               ELSE ApplyReturn(FALSE, "APPLY_ROUTING_FAILED")
  /\ step_idx' = 1
  /\ UNCHANGED <<snapshot, direct_pc>>
  /\ UNCHANGED basevars

\* what is removed after the routing: the outbound tags, then the inbound tags
Removals(s) ==
  RemoveCommands("rmo", s.remove_outbound_tags)
    \o RemoveCommands("rmi", s.remove_inbound_tags)

\* 4) one self.remove_outbound / self.remove_inbound (each takes self._lock;
\* its result is kept, not looked at), or the final "return {ok: True ...}"
ApplyRemovals ==
  /\ apply_pc = "removals"
  /\ IF step_idx > Len(Removals(snapshot))
     THEN /\ ApplyReturn(TRUE, "")
          /\ UNCHANGED <<step_idx, commands>>
     ELSE /\ LockFree(APPLYING)
          /\ commands' = Append(commands, Removals(snapshot)[step_idx])
          /\ step_idx' = step_idx + 1
          /\ _lock' = ""
          /\ UNCHANGED <<apply_pc, apply_result>>
  /\ UNCHANGED <<snapshot, direct_pc>>
  /\ UNCHANGED basevars

\* the second thread calls remove_outbound
DirectCall ==
  /\ direct_pc = "idle"
  /\ direct_pc' = "enter"
  /\ UNCHANGED <<_lock, apply_pc, snapshot, step_idx, commands, apply_result>>
  /\ UNCHANGED basevars

\* "with self._lock:" of remove_outbound
DirectEnter ==
  /\ direct_pc = "enter"
  /\ LockFree(DIRECT)
  /\ _lock' = DIRECT
  /\ direct_pc' = "run"
  /\ UNCHANGED <<apply_pc, snapshot, step_idx, commands, apply_result>>
  /\ UNCHANGED basevars

\* rmo is run and remove_outbound returns
DirectRun ==
  /\ direct_pc = "run"
  /\ _lock' = ""
  /\ direct_pc' = "idle"
  /\ UNCHANGED <<apply_pc, snapshot, step_idx, commands, apply_result>>
  /\ UNCHANGED basevars

ApplierInit == PipeInit

\* the steps of a call of apply_snapshot once it is made
ApplyStep ==
  \/ ApplyEnter
  \/ ApplyCheck
  \/ ApplyOutbound
  \/ ApplyInbound
  \/ ApplyRemoveRules
  \/ ApplyRouting
  \/ ApplyRemovals

\* the steps of the second thread once it has called
DirectStep ==
  \/ DirectEnter
  \/ DirectRun

ApplierNext ==
  \/ ApplyCall
  \/ ApplyStep
  \/ DirectCall
  \/ DirectStep

ApplierSpec == ApplierInit /\ [][ApplierNext]_vars

\* Both threads are scheduled: a step that stays possible is taken.
ApplierFairSpec ==
  ApplierSpec /\ WF_vars(ApplyStep) /\ WF_vars(DirectStep)

\* ------------------------------------------------ control panel
\* everything but the control panel
offpanel == <<links, inbound, now, pc, exc, count, slots, cur, replacements,
              next_idx, in_flight, pre, jpc, last_id, imported, xvars, bvars,
              cvars, avars>>

\* The run handlers are coroutines without an await: the event loop runs one
\* at a time.  Every "with jobs_lock:" block is one step.
\* threading.Thread(target=target, daemon=True).start() for job j
Spawn(j, k, at) ==
  /\ job_thread[j][k] \in { "none", "finished" }
  /\ job_thread' = [ job_thread EXCEPT ![j][k] = at ]

\* raise 409 when state["running"], otherwise start the thread
_start_thread_if_idle(j) ==
  IF running[j]
  THEN /\ response' = [ response EXCEPT ![j] = "409" ]
       /\ UNCHANGED <<running, job_thread>>
  ELSE /\ \E k \in JobThreads : Spawn(j, k, "spawned")
       /\ response' = [ response EXCEPT ![j] = "started" ]
       /\ UNCHANGED running

\* POST /<job>/run of a pipeline job
RunRequest(j) ==
  /\ j \in PipelineJobs
  /\ _start_thread_if_idle(j)
  /\ UNCHANGED offpanel

\* _run_<job>_thread up to _mark_job_start: the log is reset, the job object
\* is made, and state["running"] becomes True
JobMarkStart(j, k) ==
  /\ j \in PipelineJobs
  /\ job_thread[j][k] = "spawned"
  /\ job_thread' = [ job_thread EXCEPT ![j][k] = "working" ]
  /\ running' = [ running EXCEPT ![j] = TRUE ]
  /\ UNCHANGED response
  /\ UNCHANGED offpanel

\* the job returns or raises: _mark_job_finish, and the thread ends
JobFinish(j, k) ==
  /\ job_thread[j][k] = "working"
  /\ job_thread' = [ job_thread EXCEPT ![j][k] = "finished" ]
  /\ running' = [ running EXCEPT ![j] = FALSE ]
  /\ UNCHANGED response
  /\ UNCHANGED offpanel

\* POST /test/run: state["running"] is set inside the lock, with the start
TestRunRequest ==
  /\ IF running["test"]
     THEN /\ response' = [ response EXCEPT !["test"] = "409" ]
          /\ UNCHANGED <<running, job_thread>>
     ELSE /\ \E k \in JobThreads : Spawn("test", k, "working")
          /\ running' = [ running EXCEPT !["test"] = TRUE ]
          /\ response' = [ response EXCEPT !["test"] = "started" ]
  /\ UNCHANGED offpanel

PanelInit == PipeInit

PanelNext ==
  \/ \E j \in PipelineJobs : RunRequest(j)
  \/ \E j \in PipelineJobs, k \in JobThreads : JobMarkStart(j, k)
  \/ \E j \in PanelJobs, k \in JobThreads : JobFinish(j, k)
  \/ TestRunRequest

PanelSpec == PanelInit /\ [][PanelNext]_vars

\* ================================================================ claims
\* Records a live batch still counts as its own: the link of every slot whose
\* result it has not yet written.
Held(p) ==
  IF pc[p] \in { "connect", "preflight", "add_inbounds", "rules" }
    THEN SeqToSet(slots[p])
  ELSE IF pc[p] = "replace"
    THEN { slots[p][i] : i \in (1..Len(slots[p])) \ {cur[p]} }
  ELSE IF pc[p] = "test"
    THEN { slots[p][i] : i \in in_flight[p] \cup ((next_idx[p] + 1)..Len(slots[p])) }
  ELSE {}

\* This step reserved record r: it wrote a new lease on it.
ReservedInStep(r) ==
  /\ links'[r].test_status = "running"
  /\ links'[r].test_lock_until # NULL
  /\ links'[r].test_lock_until # links[r].test_lock_until

\* C1: at most one live batch holds (has reserved, bound or is probing) any
\* record, in every reachable state.
C1_AtMostOneBatchPerRecord ==
  \A r \in Links : Cardinality({ p \in Procs : r \in Held(p) }) <= 1

\* C2: reservation is linearized: a step that reserves a record finds it idle
\* or with an expired lease, so a record whose lease has not expired is never
\* reserved by a second reservation transaction.
C2_ReservationLinearized ==
  [][ \A r \in Links :
        ReservedInStep(r) =>
          \/ links[r].test_status = "idle"
          \/ links[r].test_lock_until = NULL
          \/ links[r].test_lock_until < now ]_vars

\* C2 witness: a live batch holds a record under an unexpired lease while
\* another live batch, whose reservation ran later, holds different records.
C2_Witness ==
  \E p \in Procs : \E q \in Procs \ {p} :
    /\ Held(p) # {} /\ Held(q) # {} /\ Held(p) \cap Held(q) = {}
    /\ \A r \in Held(p) \cup Held(q) :
         links[r].test_status = "running" /\ links[r].test_lock_until >= now
    /\ \E r \in Held(p), r2 \in Held(q) :
         links[r].test_batch_id = p /\ links[r2].test_batch_id = q

\* C3: lease-field invariant: running rows carry owner, deadline and batch id,
\* idle rows carry none of them.
C3_LeaseFields ==
  \A r \in Links :
    /\ links[r].test_status = "running" =>
         /\ links[r].test_lock_owner # NULL
         /\ links[r].test_lock_until # NULL
         /\ links[r].test_batch_id # NULL
    /\ links[r].test_status = "idle" =>
         /\ links[r].test_lock_owner = NULL
         /\ links[r].test_lock_until = NULL
         /\ links[r].test_batch_id = NULL

\* C3 witness: a record was reserved and later released by the except branch
\* while another record is still running.
C3_Witness ==
  /\ \E p \in Procs : pc[p] = "failed" /\ exc[p] = "AddInbound"
  /\ \E r \in Links : links[r].test_status = "running"
  /\ \E r \in Links : links[r].test_status = "idle" /\ links[r].is_in_use = 1

\* C4: every bound slot references a record with is_in_use=1 and
\* bound_port equal to the slot's port.
C4_SlotExclusion ==
  \A q \in DOMAIN inbound :
    (inbound[q].status = "bound" /\ inbound[q].link_id # NULL) =>
      /\ links[inbound[q].link_id].is_in_use = 1
      /\ links[inbound[q].link_id].bound_port = q

\* C5: crash recovery: with every other batch dead (killed) and every lease
\* they left behind expired, a batch's reservation-and-bind transaction is
\* never failed by the binding fields the dead batches left on their records.
C5_CrashRecovery ==
  [][ \A p \in Procs :
        ( /\ pc[p] \in { "start", "replace" }
          /\ \A q \in Procs \ {p} : pc[q] \in { "start", "killed" }
          /\ \E q \in Procs \ {p} : pc[q] = "killed"
          /\ \A r \in Links :
               (links[r].test_status = "running" /\ links[r].test_batch_id # p)
                 => links[r].test_lock_until < now )
        => ~( pc'[p] \in { "failed", "except" } /\ exc'[p] = "IntegrityError" )
    ]_vars

\* C6: a batch that reserved and bound its records and is then aborted by a
\* preparation failure, before any result was written, leaves every links row
\* and every slot row as it was before the batch started.
C6_CancelRestoresStore ==
  \A p \in Procs :
    (pc[p] = "failed" /\ exc[p] \in { "AddInbound", "Rules" } /\ pre.by = p) =>
      /\ links = pre.links
      /\ \A q \in DOMAIN pre.inbound : inbound[q] = pre.inbound[q]

\* C7: when a batch run has ended without being killed, no record is left
\* running under its batch id and no slot is left bound to one of its records.
C7_ReleasedOnEveryExit ==
  \A p \in Procs :
    pc[p] \in { "done", "failed" } =>
      /\ \A r \in Links :
           ~(links[r].test_status = "running" /\ links[r].test_batch_id = p)
      /\ \A q \in DOMAIN inbound :
           (inbound[q].status = "bound" /\ inbound[q].link_id # NULL) =>
             links[inbound[q].link_id].test_batch_id # p

Geo(l) == <<l.ip, l.country, l.city, l.datacenter>>

C9_Eligibility ==
  [][ \A r \in Links :
        ReservedInStep(r) =>
          /\ links[r].is_config_primary = 1
          /\ links[r].has_config
          /\ links[r].is_invalid = 0
          /\ links[r].is_protocol_unsupported = 0
          /\ links[r].is_in_use = 0
          /\ \/ links[r].test_status = "idle"
             \/ links[r].test_lock_until < now ]_vars

\* Eligibility as the specification words it, without any untested condition.
StillTestable(l) ==
  /\ l.is_config_primary = 1 /\ l.has_config /\ l.outbound_tag # NULL
  /\ l.is_invalid = 0 /\ l.is_protocol_unsupported = 0

CompleteGroup(L, h) == \A r \in HashRows(L, h) : L[r].config_group_id # ""

\* A record with a smaller id joined fingerprint h after its group was formed.
JoinedLater(L, h) ==
  /\ CompleteGroup(L, h)
  /\ Cardinality(HashRows(L, h)) >= 2
  /\ L[MinOf(HashRows(L, h))].config_group_id # str(MinOf(HashRows(L, h)))

\* C11: primary uniqueness -- for every fingerprint whose records all have a
\* non-empty group_id, exactly one record has is_config_primary = 1 and it is
\* the record with the smallest id of the fingerprint.  It holds in every state
\* of the pipeline, hence after every grouping run that was not stopped, also
\* when a record with a smaller id got its fingerprint after the group was
\* formed.
C11_PrimaryUniqueness ==
  \A h \in Hashes(links) :
    CompleteGroup(links, h) => PrimaryRows(links, h) = { MinOf(HashRows(links, h)) }

\* A grouping run has ended with a complete group that a smaller id joined
\* later: the primary flag has moved to the new smallest id.
C11_Witness ==
  /\ Idle
  /\ \E h \in Hashes(links) :
       /\ JoinedLater(links, h)
       /\ links[MinOf(HashRows(links, h))].is_config_primary = 1

\* the group ids the records of fingerprint h carry
GroupIds(L, h) == { L[r].config_group_id : r \in HashRows(L, h) } \ {""}

\* C12 (as claimed): every record with a non-empty group_id has group_id equal
\* to the textual form of the smallest id among the records sharing its
\* fingerprint.
C12_GroupIdIsMinId ==
  \A r \in DOMAIN links :
    links[r].config_group_id # ""
      => links[r].config_group_id = str(MinOf(HashRows(links, links[r].config_hash)))

\* C12 (amended): the grouped records of a fingerprint carry one and the same
\* group_id, it is the text of the id of a record of that fingerprint, and at
\* the step that forms the group it is the text of the smallest id the
\* fingerprint has then; records joining later inherit it.
C12_GroupIdFixedAtFormation ==
  [][ \A h \in Hashes(links') :
        /\ Cardinality(GroupIds(links', h)) <= 1
        /\ \A g \in GroupIds(links', h) : \E m \in HashRows(links', h) : g = str(m)
        /\ (GroupIds(links, h) = {} /\ GroupIds(links', h) # {})
             => GroupIds(links', h) = { str(MinOf(HashRows(links', h))) } ]_vars

\* A record with a smaller id has joined a grouped fingerprint and carries the
\* group id formed before it came.
C12_Witness ==
  \E h \in Hashes(links) :
    /\ CompleteGroup(links, h)
    /\ \E a, b \in HashRows(links, h) : a < b /\ GroupIds(links, h) = { str(b) }

\* C13: group stability -- once a record has a non-empty group_id no step of
\* any job changes it; grouping writes group_id only where it is empty.
C13_GroupStability ==
  [][ \A r \in DOMAIN links :
        links[r].config_group_id # ""
          => links'[r].config_group_id = links[r].config_group_id ]_vars

\* Phase 1 of a later grouping run has processed a fingerprint that was grouped
\* before: the older record still has its own id as group id, the newly
\* arrived smaller record was filled in.
C13_Witness ==
  /\ jpc["group"] = "phase1"
  /\ \E h \in Hashes(links) :
     \E a, b \in HashRows(links, h) :
       /\ a < b
       /\ links[b].config_group_id = str(b)
       /\ links[a].config_group_id # ""

\* no fingerprint for either phase of update_groups
GroupFix(L) ==
  /\ _fetch_hashes_needing_group(L) = {}
  /\ _fetch_hashes_needing_primary_fix(L) = {}

\* C19: grouping idempotence -- a grouping run that is not stopped ends in a
\* state where neither phase finds a fingerprint, and a run started in such a
\* state changes no group_id and no is_config_primary (no column at all).
C19_GroupingIdempotent ==
  [][ /\ (PrimaryBatch /\ jpc'["group"] = "idle") => GroupFix(links')
      /\ ((GroupBatch \/ PrimaryBatch \/ GroupStop) /\ GroupFix(links))
           => links' = links ]_vars

\* A grouping run that found nothing in phase 1 stands in phase 2 over a store
\* whose fingerprints are all grouped, one of them with two records.
C19_Witness ==
  /\ jpc["group"] = "phase2"
  /\ GroupFix(links)
  /\ \E h \in Hashes(links) : Cardinality(HashRows(links, h)) >= 2
  /\ \A r \in DOMAIN links :
       links[r].config_hash # NULL => links[r].config_group_id # ""

\* C15: invalid implies no config -- in every state reachable by importer,
\* JSON builder, JSON repairer and fingerprint runs, every record with
\* is_invalid = 1 has an empty config_json.
C15_InvalidImpliesNoConfig ==
  \A r \in DOMAIN links : links[r].is_invalid = 1 => ~links[r].has_config

\* the uri of the record begins with a scheme outside the supported set
SchemeUnsupported(l) == _detect_protocol(l.url) \notin _SUPPORTED_PROTOCOLS

\* C16 (as claimed): closed supported-scheme set -- a record whose uri scheme
\* is outside the supported set is marked is_protocol_unsupported = 1 when the
\* importer's marking pass has run, and in no state has a config_json or is
\* eligible for a reservation by the test engine.
C16_UnsupportedSchemeClosed ==
  [][ \A r \in DOMAIN links' :
        SchemeUnsupported(links'[r])
          => /\ ~links'[r].has_config
             /\ ~Eligible(links'[r], now')
             /\ (MarkBatch /\ jpc'["importer"] = "idle")
                  => links'[r].is_protocol_unsupported = 1 ]_vars

\* C16 (amended): a record whose uri scheme is outside the supported set in no
\* state has a config_json or is eligible for a reservation, and when the
\* importer's marking pass has run it is marked is_protocol_unsupported = 1,
\* or, when its uri is a multi-URI text, is_invalid = 1 by the normalization.
C16_UnsupportedSchemeNeverTested ==
  [][ \A r \in DOMAIN links' :
        SchemeUnsupported(links'[r])
          => /\ ~links'[r].has_config
             /\ ~Eligible(links'[r], now')
             /\ (MarkBatch /\ jpc'["importer"] = "idle")
                  => \/ links'[r].is_protocol_unsupported = 1
                     \/ /\ links'[r].is_invalid = 1
                        /\ Len(_split_multi_config_url(links'[r].url)) > 1 ]_vars

\* An importer run has completed: the hysteria2 record is marked unsupported,
\* the multi-URI record that begins with hysteria2 is marked invalid only, and
\* another record is eligible for testing.
C16_Witness ==
  /\ Idle
  /\ imported
  /\ \E r \in DOMAIN links :
       SchemeUnsupported(links[r]) /\ links[r].is_protocol_unsupported = 1
  /\ \E r \in DOMAIN links :
       /\ SchemeUnsupported(links[r])
       /\ links[r].is_protocol_unsupported = 0
       /\ links[r].is_invalid = 1
  /\ \E r \in DOMAIN links : Eligible(links[r], now)

\* C18: importer idempotence -- once an importer run has completed, a later
\* importer run inserts no record, changes no uri and changes no is_invalid
\* flag, whatever other jobs ran in between.
C18_ImporterIdempotent ==
  [][ (imported /\ (ImportRawFile \/ NormalizeBatch \/ MarkBatch))
        => /\ DOMAIN links' = DOMAIN links
           /\ \A r \in DOMAIN links :
                /\ links'[r].url = links[r].url
                /\ links'[r].is_invalid = links[r].is_invalid ]_vars

\* every record has a tag, and a config_json or one of the two marks
Built(L) ==
  /\ \A r \in DOMAIN L : L[r].outbound_tag # NULL
  /\ \A r \in DOMAIN L :
       L[r].has_config \/ L[r].is_invalid = 1 \/ L[r].is_protocol_unsupported = 1

\* C20: JSON builder idempotence -- when a builder run that was not stopped
\* ends, every record has a non-empty config_json or is marked invalid or
\* unsupported, and a builder run started in such a state finds no candidate
\* and changes nothing.
C20_BuilderIdempotent ==
  [][ /\ (BuildBatch /\ jpc'["json"] = "idle") => Built(links')
      /\ ((TagBatch \/ BuildBatch) /\ Built(links)) => links' = links ]_vars

\* A builder run stands at the start of its candidate loop over a store a
\* builder run has been through: converted, failed and unsupported records.
C20_Witness ==
  /\ jpc["json"] = "build"
  /\ last_id["json"] = 0
  /\ Built(links)
  /\ \E r \in DOMAIN links : links[r].has_config /\ links[r].is_invalid = 0
  /\ \E r \in DOMAIN links : ~links[r].has_config /\ links[r].is_invalid = 1
  /\ \E r \in DOMAIN links : ~links[r].has_config /\ links[r].is_protocol_unsupported = 1


AddOutboundRejected(p, r) ==
  /\ pc[p] = "preflight"
  /\ cur[p] \in 1..Len(slots[p])
  /\ r = slots[p][cur[p]]
  /\ links'[r].last_test_at # links[r].last_test_at
  /\ links'[r].last_test_error # "parse"

\* C17: when the data plane rejects a row's outbound for an unknown cipher
\* method, the row is marked is_protocol_unsupported = 1 with error code
\* "ss_cipher", loses its inbound binding and goes back to idle.
C17_CipherMarkedUnsupported ==
  [][ \A p \in Procs : \A r \in DOMAIN links :
        ( AddOutboundRejected(p, r) /\ ~links[r].cipher_known ) =>
          /\ links'[r].is_protocol_unsupported = 1
          /\ links'[r].last_test_error = "ss_cipher"
          /\ links'[r].inbound_tag = NULL
          /\ links'[r].test_status = "idle" ]_vars


\* ---------------------------------------------------------------- C21..C30
\* The columns finalize_db_after_test resets on the record.
ReleasedRow(l) ==
  /\ l.test_status = "idle"
  /\ l.test_started_at = NULL
  /\ l.test_lock_until = NULL
  /\ l.test_lock_owner = NULL
  /\ l.test_batch_id = NULL
  /\ l.inbound_tag = NULL
  /\ l.bound_port = NULL
  /\ l.is_in_use = 0

\* The step wrote a test result on record r.
ResultWritten(r) ==
  \/ links'[r].last_test_at # links[r].last_test_at
  \/ links'[r].last_test_ok # links[r].last_test_ok
  \/ links'[r].last_test_error # links[r].last_test_error

\* C21: every step that writes a result, ok or failed, leaves the record idle
\* with its lease, batch id, inbound_tag and bound_port cleared and
\* is_in_use = 0, and leaves the slot of the job free (link_id and
\* outbound_tag null); the committed result write of the completion loop does
\* both for the job it took out of the pool.
C21_ResultWriteReleases ==
  [][ /\ \A r \in Links : ResultWritten(r) => ReleasedRow(links'[r])
      /\ \A p \in Procs : \A i \in in_flight[p] :
           ( pc[p] = "test" /\ i \notin in_flight'[p]
               /\ <<links, inbound>>' # <<links, inbound>> ) =>
             /\ ReleasedRow(links'[slots[p][i]])
             /\ links'[slots[p][i]].last_test_at = now
             /\ inbound'[i].link_id = NULL
             /\ inbound'[i].outbound_tag = NULL
      /\ \A p \in Procs :
           ( pc[p] = "preflight" /\ pc'[p] \in { "replace", "except" } ) =>
             /\ ReleasedRow(links'[slots[p][cur[p]]])
             /\ inbound'[cur[p]].link_id = NULL
             /\ inbound'[cur[p]].outbound_tag = NULL ]_vars

\* C21 witness: one record carries a successful result and another a failed
\* probe result, both released, and no slot is bound.
C21_Witness ==
  /\ \E a \in Links : \E b \in Links :
       /\ links[a].last_test_at # NULL /\ links[a].last_test_ok = 1
       /\ links[b].last_test_at # NULL /\ links[b].last_test_ok = 0
       /\ links[b].last_test_error = "timeout"
       /\ ReleasedRow(links[a]) /\ ReleasedRow(links[b])
  /\ \A q \in DOMAIN inbound : inbound[q].link_id = NULL


\* The step in which batch p leaves main() through the finally block.
BatchEnds(p) ==
  /\ pc[p] \in { "finish", "except" }
  /\ pc'[p] \in { "done", "failed" }

KindRank(k) == IF k = "rule" THEN 1 ELSE IF k = "inbound" THEN 2 ELSE 3

\* The removal commands of kind k in a log, as a set of tags.
Commands(log, k) == { log[i].tag : i \in { j \in DOMAIN log : log[j].kind = k } }

\* rules, then inbounds, then outbounds
RulesInboundsOutbounds(log) ==
  \A i \in DOMAIN log : \A j \in DOMAIN log :
    i < j => KindRank(log[i].kind) <= KindRank(log[j].kind)

\* C22 as stated: when a batch run ends, on success and on error alike, its
\* removal commands went rules, then inbounds, then outbounds, and nothing the
\* batch added to the data plane is left in it.
C22_CleanupRemovesEverything ==
  [][ \A p \in Procs :
        BatchEnds(p) =>
          /\ RulesInboundsOutbounds(removed'[p])
          /\ xray'.rules \cap applied[p] = {}
          /\ xray'.inb \cap SeqToSet(created_in[p]) = {}
          /\ xray'.out \cap SeqToSet(created_out[p]) = {} ]_vars

\* C22 amended: when a batch run ends, a removal command has been issued for
\* every rule tag of the batch, every inbound and every outbound it added, in
\* the order rules, inbounds, outbounds; every object whose command succeeded
\* or answered "not found" is gone, and an object whose command failed
\* otherwise stays.
C22_CleanupOrderBestEffort ==
  [][ \A p \in Procs :
        BatchEnds(p) =>
          LET log == removed'[p]
          IN /\ RulesInboundsOutbounds(log)
             /\ applied[p] \subseteq Commands(log, "rule")
             /\ Commands(log, "inbound") = SeqToSet(created_in[p])
             /\ Commands(log, "outbound") = SeqToSet(created_out[p])
             /\ \A i \in DOMAIN log :
                  log[i].ok =>
                    /\ log[i].kind = "rule" => log[i].tag \notin xray'.rules
                    /\ log[i].kind = "inbound" => log[i].tag \notin xray'.inb
                    /\ log[i].kind = "outbound" => log[i].tag \notin xray'.out ]_vars

\* C22 witness: a batch that failed after it had added outbounds, inbounds
\* and rules has ended, with a removal command of each kind.
C22_Witness ==
  \E p \in Procs :
    /\ pc[p] = "failed"
    /\ Commands(removed[p], "rule") # {}
    /\ Commands(removed[p], "inbound") # {}
    /\ Cardinality(Commands(removed[p], "outbound")) = 2


\* The records the eligibility query returns at this moment.
EligibleNow == { r \in Links : Eligible(links[r], now) }

\* C23: a batch start that finds fewer eligible records than count, or none,
\* does not abort the run: with some records it pairs them with as many slots
\* and goes on to test them, with none it stays at the start and retries.
C23_ShortSelectionIsNoError ==
  [][ \A p \in Procs :
        ( pc[p] = "start" /\ pc'[p] # "start" ) =>
          /\ ~( pc'[p] = "failed" /\ exc'[p] = "NotEnough" )
          /\ pc'[p] = "connect" =>
               Len(slots'[p]) = Min(count'[p], Cardinality(EligibleNow)) ]_vars


\* The step in which the normalization pass of an importer run ends (its
\* SELECT came back empty).
NormalizationEnds ==
  jpc["importer"] = "normalize" /\ jpc'["importer"] = "mark"

\* The rows holding a segment of row r's url.
Children(L, r) ==
  { q \in DOMAIN L : \E i \in DOMAIN _split_multi_config_url(L[r].url) :
                       L[q].url = _split_multi_config_url(L[r].url)[i] }

\* Row r has been split: every segment of its url is the url of a row
\* (of exactly two rows for a text of two URIs) and the row itself is marked
\* invalid, or has been marked unsupported since.
SplitDone(L, r) ==
  /\ L[r].is_invalid = 1 \/ L[r].is_protocol_unsupported = 1
  /\ Cardinality(Children(L, r)) = Len(_split_multi_config_url(L[r].url))

\* C24: when the normalization pass has ended, every record whose url holds
\* more than one scheme prefix is marked invalid and the store holds one
\* record per segment.
C24_EveryMultiUriSplit ==
  [][ NormalizationEnds =>
        \A r \in DOMAIN links' :
          Len(_split_multi_config_url(links'[r].url)) > 1 => SplitDone(links', r) ]_vars


\* The step in which a repairer batch commits, and the rows it selected.
RepairCommits ==
  /\ Idle \/ jpc["json_repair"] = "repair"
  /\ jpc'["json_repair"] = "repair"

RepairRows ==
  SeqToSet(RepairCandidates(IF Idle THEN clear_repaired_url(links) ELSE links,
                            last_id["json_repair"]))

\* The three outcomes of a candidate, from the row before (l) and after (m).
RepairSucceeded(l, m) ==
  /\ m.has_config /\ m.is_invalid = 0 /\ m.repaired_url = NULL
  /\ m.is_protocol_unsupported = 0

RepairFailed(l, m) ==
  /\ m.repaired_url # NULL /\ m.is_invalid = 1
  /\ m.has_config = l.has_config /\ m.config_tag = l.config_tag
  /\ m.is_protocol_unsupported = 0

RepairUnsupported(l, m) ==
  /\ m.is_protocol_unsupported = 1 /\ m.is_invalid = 0 /\ m.repaired_url = NULL

ExactlyOneOutcome(l, m) ==
  Cardinality({ k \in 1..3 : \/ k = 1 /\ RepairSucceeded(l, m)
                             \/ k = 2 /\ RepairFailed(l, m)
                             \/ k = 3 /\ RepairUnsupported(l, m) }) = 1

\* C26 as stated: every candidate of a committed repairer batch ends in
\* exactly one of: converted (config_json set, is_invalid = 0, repaired_url
\* cleared), failed (repaired_url stored, is_invalid = 1, config_json as it
\* was), unsupported (is_protocol_unsupported = 1, is_invalid = 0,
\* repaired_url cleared).
C26_ThreeOutcomes ==
  [][ RepairCommits =>
        \A r \in RepairRows : ExactlyOneOutcome(links[r], links'[r]) ]_vars

\* C26 amended: every candidate of a committed repairer batch ends in exactly
\* one of the three outcomes, or, when no outbound tag could be given to it
\* (_ensure_outbound_tag_for_id raised), is left as it was.
C26_ThreeOutcomesOrSkipped ==
  [][ RepairCommits =>
        \A r \in RepairRows :
          \/ ExactlyOneOutcome(links[r], links'[r])
          \/ /\ links[r].outbound_tag = NULL
             /\ links'[r] = links[r] ]_vars

\* C26 witness: a repairer run is under way and the store holds a converted
\* row, a failed one and one marked unsupported, all three multi-URI rows or
\* rows the builder had marked invalid.
C26_Witness ==
  /\ jpc["json_repair"] = "repair"
  /\ \E a \in DOMAIN links : \E b \in DOMAIN links : \E c \in DOMAIN links :
       /\ RepairSucceeded(links[a], links[a]) /\ links[a].config_hash = NULL
       /\ links[b].repaired_url # NULL /\ links[b].is_invalid = 1
       /\ RepairUnsupported(links[c], links[c]) /\ links[c].url = 2

\* The step in which a repairer run ends because its loop ran dry.
RepairRunEnds == RepairBatch /\ jpc'["json_repair"] = "idle"

\* C27: after a repairer run no record has both a config_json and a
\* repaired_url, and no record with is_invalid = 0 has a repaired_url,
\* whatever runs of the importer, the builder, the fingerprint job and the
\* repairer came before.
C27_RepairedUrlCleared ==
  [][ RepairRunEnds =>
        \A r \in DOMAIN links' :
          /\ ~( links'[r].has_config /\ links'[r].repaired_url # NULL )
          /\ links'[r].is_invalid = 0 => links'[r].repaired_url = NULL ]_vars

\* C28: in every state of the pipeline, a record that has a config_json
\* (the builder or the repairer wrote it) has an outbound_tag, and the tag
\* member of the stored outbound equals it: no step changes the outbound_tag
\* of such a record and leaves its config_json as it was.
C28_TagInjected ==
  \A r \in DOMAIN links :
    links[r].has_config =>
      /\ links[r].outbound_tag # NULL
      /\ links[r].config_tag = links[r].outbound_tag

\* C28 witness: a repairer run is under way and the store holds two records
\* with a config_json, each carrying its own outbound_tag.
C28_Witness ==
  \E a \in DOMAIN links : \E b \in DOMAIN links :
    /\ a # b
    /\ links[a].has_config /\ links[a].config_tag = links[a].outbound_tag
    /\ links[b].has_config /\ links[b].config_tag = links[b].outbound_tag
    /\ links[a].outbound_tag # links[b].outbound_tag
    /\ jpc["json_repair"] = "repair"

\* The threads that are inside "with self._io_lock" of converter c.
InsideLock(c) ==
  { t \in BridgeThreads :
      caller[t].pc \in { "ensure", "write", "select" } /\ caller[t].conv = c }

\* The requests and the answers that sit in the pipes of Node process n.
InPipes(n) ==
  { node[n].stdin[i] : i \in DOMAIN node[n].stdin }
    \cup { node[n].stdout[i].req : i \in DOMAIN node[n].stdout }

\* C30: with the builder's and the repairer's thread calling the shared
\* bridge, and a stop request closing it under them, at most one thread is
\* inside the lock of a converter, a Node process never holds more than one
\* line (a request or its answer), a call that returns a line returns the
\* answer to its own request, and whatever sits in the pipes of a
\* converter's current process belongs to the call that is waiting on it: a
\* timed-out request left no answer behind for a later call to read.
C30_RequestResponsePairing ==
  /\ \A c \in Converters : Cardinality(InsideLock(c)) <= 1
  /\ \A n \in NodeProcs : Len(node[n].stdin) + Len(node[n].stdout) <= 1
  /\ \A t \in BridgeThreads :
       caller[t].pc = "returned" /\ caller[t].result # NoLine
         => caller[t].result.req = Request(t)
  /\ \A c \in Converters :
       _proc[c] # NULL =>
         \A r \in InPipes(_proc[c]) :
           \E t \in BridgeThreads :
             /\ caller[t].pc = "select" /\ caller[t].proc = _proc[c]
             /\ r = Request(t)

\* C30 witness: one thread's call timed out on a process that had its request
\* (the url came out invalid), and the other thread has since got an answer
\* from a process started after that one.
C30_Witness ==
  \E t \in BridgeThreads : \E u \in BridgeThreads \ {t} :
    /\ caller[t].verdict = "invalid" /\ caller[t].first_cause = "timeout"
    /\ caller[u].pc = "returned" /\ caller[u].result.kind = "json"
    /\ caller[u].proc > 1
    /\ node[1].state = "dead" /\ node[1].stdin # << >>

\* C25: when the builder gives up on a url (marks the record invalid) after a
\* first attempt that failed because the bridge timed out or did not come up,
\* that was its second attempt; after a first attempt that got null or ERR: it
\* was its first.
C25_TransientRetriedOnce ==
  [][ AfterCall("json") /\ caller'["json"].verdict = "invalid" =>
        /\ caller'["json"].first_cause \in { "timeout", "start" }
              => caller["json"].try = 2
        /\ caller'["json"].first_cause \in { "null", "err" }
              => caller["json"].try = 1 ]_vars

\* The sources whose removal has run to its end.
RemovedSources == { u \in Sources : task[u].pc = "removed" }

\* The worker of the source made every attempt the retry loop allows, or one
\* attempt got a text, and no configuration came out.
AllAttemptsNoUri(u) ==
  \/ task[u].content = "noconfigs"
  \/ task[u].content = "none" /\ task[u].attempt = max_retries - 1

\* the lines of the file that name source u
LinesOf(u) ==
  { i \in DOMAIN sources_file :
      ~IsBlankOrComment(sources_file[i]) /\ strip(sources_file[i]) = u }

ClaimedCode(et) ==
  CASE et = "connection_timeout" -> "timeout"
    [] et = "connection_failed" -> "connect"
    [] et = "proxy_error" -> "proxy"
    [] et = "tls_error" -> "tls"
    [] et = "http_error" -> "http"
    [] et = "captcha_or_antibot_challenge" -> "antibot"
    [] et \in { "badjson", "json_parse_failed" } -> "parse"
    [] et = "" -> "fail"
    [] OTHER -> et

\* C31: the code a result write stores for a failed probe is the image of one
\* of the probe's error types under the table connection_timeout -> timeout,
\* connection_failed -> connect, proxy_error -> proxy, tls_error -> tls,
\* http_error -> http, captcha_or_antibot_challenge -> antibot,
\* json_parse_failed -> parse, any other error type -> itself.
C31_ErrorCodeMapping ==
  [][ CompleteAny(1) =>
        \A r \in Links :
          links'[r].last_test_error # links[r].last_test_error
            => links'[r].last_test_error
                 \in { ClaimedCode(et) : et \in CheckHostErrorTypes } ]_vars

\* The jobs of batch p whose result the completion loop has handled.
Attributed(p) == (1..next_idx[p]) \ in_flight[p]

\* What every step keeps: the jobs in flight are submitted ones and fit the
\* pool; a step of the probe phase that touches the pool handles one job,
\* submits jobs under new indexes only (a job is submitted once), and leaves
\* every handled job handled (it is never handled again).
PoolDiscipline ==
  /\ in_flight'[1] \subseteq 1..next_idx'[1]
  /\ Cardinality(in_flight'[1]) <= PoolSize
  /\ ( /\ pc[1] = "test" /\ pc'[1] \in { "test", "finish" }
       /\ << next_idx'[1], in_flight'[1] >> # << next_idx[1], in_flight[1] >> ) =>
       /\ next_idx'[1] >= next_idx[1]
       /\ in_flight'[1] \ in_flight[1] = (next_idx[1] + 1)..next_idx'[1]
       /\ Cardinality(Attributed(1)') = Cardinality(Attributed(1)) + 1
       /\ Attributed(1) \subseteq Attributed(1)'

C33_DisjointSlots ==
  \A p \in Procs :
    Live(p) =>
      \A i \in DOMAIN slots[p] : \A j \in DOMAIN slots[p] :
        i # j /\ slots[p][i] # NULL => slots[p][i] # slots[p][j]

\* C34: a record that is no longer primary when the preparation step reaches
\* its slot is not accepted for probing: the step that passes the slot (on to
\* the next slot or on to the inbound phase) finds the record primary.
C34_PrimacyRecheck ==
  [][ /\ pc[1] = "preflight"
      /\ slots'[1] = slots[1]
      /\ cur'[1] = cur[1] + 1 \/ pc'[1] = "add_inbounds"
      => links[slots[1][cur[1]]].is_config_primary = 1 ]_vars

\* What a snapshot asks for after its outbounds and inbounds are added.
AfterAdds(s) ==
  RemoveCommands("rmrules", s.remove_rule_tags)
    \o (IF s.routing = "dict" THEN << <<"adrules", NULL>> >> ELSE << >>)
    \o Removals(s)

Subs(cmds) == { cmds[i][1] : i \in DOMAIN cmds }
TagsOf(cmds) == { cmds[i][2] : i \in DOMAIN cmds }

\* The commands of a call that returned ok: the outbounds, then the inbounds,
\* then the rule tags removed, the routing applied and the listed tags removed.
AllStepsInOrder ==
  /\ Len(commands) >= Len(AfterAdds(snapshot))
  /\ LET n == Len(commands) - Len(AfterAdds(snapshot))
         adds == SubSeq(commands, 1, n)
         outs == SelectSeq(adds, LAMBDA c : c[1] \in { "ado", "rmo" })
         ins == SelectSeq(adds, LAMBDA c : c[1] \in { "adi", "rmi" })
     IN /\ SubSeq(commands, n + 1, Len(commands)) = AfterAdds(snapshot)
        /\ adds = outs \o ins
        /\ TagsOf(outs) = SeqToSet(snapshot.outbounds)
        /\ TagsOf(ins) = SeqToSet(snapshot.inbounds)

\* The commands of a call that returned a failure: the last one is of the
\* step the error code names, and no command of a later step was run.
StoppedAt(code) ==
  CASE code = "APPLY_OUTBOUNDS_FAILED" ->
         /\ commands # << >> /\ commands[Len(commands)][1] = "ado"
         /\ Subs(commands) \subseteq { "ado", "rmo" }
    [] code = "APPLY_INBOUNDS_FAILED" ->
         /\ commands # << >> /\ commands[Len(commands)][1] = "adi"
         /\ Subs(commands) \subseteq { "ado", "rmo", "adi", "rmi" }
    [] code = "REMOVE_RULES_FAILED" ->
         /\ commands # << >> /\ commands[Len(commands)][1] = "rmrules"
    [] code = "APPLY_ROUTING_FAILED" ->
         /\ commands # << >> /\ commands[Len(commands)][1] = "adrules"
    [] code \in { "XRAY_BIN_NOT_SET", "XRAY_BIN_NOT_FOUND", "INVALID_SNAPSHOT" } ->
         Subs(commands) \subseteq { "ado", "rmo", "adi", "rmi", "rmrules" }
    [] OTHER -> FALSE

Returned ==
  /\ apply_pc = "returned"
  /\ IF apply_result.ok THEN AllStepsInOrder
     ELSE StoppedAt(apply_result.error_code)

\* C35: a call of apply_snapshot whose snapshot passed the validation goes
\* through its steps in order (outbounds, inbounds, rule tags removed, routing
\* applied, listed tags removed) and returns: ok with every step done in that
\* order, or not ok with the code of the step that failed and nothing after it.
C35_StepsInOrder == (apply_pc = "outbounds") ~> Returned

\* C36: a call of apply_snapshot that has not returned can take its next step
\* unless the other thread holds the lock: it never waits for a lock that it
\* holds itself.
C36_ApplyReturns ==
  apply_pc \in { "idle", "returned" } \/ _lock = DIRECT \/ ENABLED ApplyStep

\* the lease of a record and its binding to a slot
LeaseAndBinding(l) ==
  << l.test_status, l.test_started_at, l.test_lock_until, l.test_lock_owner,
     l.test_batch_id, l.inbound_tag, l.is_in_use, l.bound_port >>

\* C37: a result attribution or a batch release by batch p changes the lease
\* and the binding only of records whose test_batch_id is p, and changes only
\* slots that are free or bound to such a record.
C37_LeaseOwnership ==
  [][ \A p \in Procs :
        Complete(p) \/ Release(p) =>
          /\ \A r \in DOMAIN links :
               LeaseAndBinding(links'[r]) # LeaseAndBinding(links[r])
                 => links[r].test_batch_id = p
          /\ \A q \in DOMAIN inbound :
               inbound'[q] # inbound[q] /\ inbound[q].link_id # NULL
                 => links[inbound[q].link_id].test_batch_id = p ]_vars

\* C38: no step of a hash run or a group run, however the two interleave,
\* changes a fingerprint a record has, and the grouped records of one
\* fingerprint carry one group id.
C38_OneGroupPerFingerprint ==
  [][ /\ \A r \in DOMAIN links :
           links[r].config_hash # NULL
             => r \in DOMAIN links' /\ links'[r].config_hash = links[r].config_hash
      /\ \A h \in Hashes(links') : Cardinality(GroupIds(links', h)) <= 1 ]_vars

\* C38 witness: while a hash run and a group run are both under way, two
\* records share a fingerprint and a group id.
C38_Witness ==
  /\ jpc["hash"] # "idle"
  /\ jpc["group"] # "idle"
  /\ \E a, b \in DOMAIN links :
       /\ a # b
       /\ links[a].config_hash # NULL
       /\ links[a].config_hash = links[b].config_hash
       /\ links[a].config_group_id # ""
       /\ links[a].config_group_id = links[b].config_group_id

\* the slots bound to record r
SlotsOf(r) == { q \in DOMAIN inbound : inbound[q].link_id = r }

\* C39: with no batch process running (none started, or every one ended by
\* completion or by a failure its except branch handled) no record is in use
\* or carries a port or an inbound tag; while a batch runs, every record in
\* use is referenced by exactly one slot, the one whose port is the record's
\* bound_port.
C39_NoOrphanedBinding ==
  /\ (\A p \in Procs : \/ pc[p] \in { "start", "done" }
                       \/ pc[p] = "failed" /\ exc[p] # "XrayInit") =>
       \A r \in DOMAIN links :
         /\ links[r].is_in_use = 0
         /\ links[r].bound_port = NULL
         /\ links[r].inbound_tag = NULL
  /\ (\E p \in Procs : Live(p)) =>
       \A r \in DOMAIN links :
         links[r].is_in_use = 1 => SlotsOf(r) = { links[r].bound_port }

\* the threads of job j that exist and have not ended
Instances(j) == { k \in JobThreads : job_thread[j][k] \in { "spawned", "working" } }

\* C40: of each pipeline job at most one instance exists at a time: a run
\* request between the acceptance of another and the end of its job is
\* answered with the conflict and starts nothing.
C40_SingleInstance ==
  \A j \in PipelineJobs : Cardinality(Instances(j)) <= 1

====
